---- MODULE Spec2Model ----
(***************************************************************************)
(* Segmentation engine, tabular / fraction / generic / delimiter           *)
(* strategies, line normalizer, row geometry splitter, crop-to-item        *)
(* association, work item validation, job control, database update and    *)
(* extraction subprocess of the Primus metric-computation batch job.       *)
(*                                                                         *)
(* Text is modelled character by character: a line is a sequence of        *)
(* one-character strings, and a text (full_document_text, a chunk) is the  *)
(* sequence of its lines, i.e. the value of text.split('\n'); joining with *)
(* "\n" gives the Python string back, so the representation loses nothing. *)
(***************************************************************************)
EXTENDS Integers, Sequences, FiniteSets, TLC

VARIABLES
    \* ---- A strategy run line by line: extract_primus_format_chunks,
    \*      extract_fraction_format_chunks, the delimiter fallback
    lines, line_num, chunks, current_chunk, in_data_section, tpc,
    \* ---- Line normalizer (normalize_text_line)
    raw_line, normalized_line, npc,
    \* ---- Segmentation engine (extract_work_item_chunks)
    plan, pdf, full_document_text, tariffa_found, designazione_found,
    primus_chunks, fraction_chunks, best_chunks, tried, result, raised,
    page_errors, pc,
    \* ---- Row geometry splitter (crop_rows_by_keyword, split_pdf_by_sommano)
    doc, damaged, pno, saved_files, crops, work_item_files, spc,
    \* ---- Extraction and crop association (main of both jobs)
    outcomes, pending, extracted_items, work_items, n_crops, linked, apc,
    \* ---- Work item lists (validate_and_normalize_workitems,
    \*      calculate_total_amount)
    item_input, item_list, val_error, item_total, total_raised, ipc,
    \* ---- The job (main of extractMetricComputation.py)
    request, quality_result, extraction_result, job_items, job_error, total_amount,
    db_items, n_files, steps, emails, exit_code, temp_file, mongo_client, cleanup_log, jpc,
    \* ---- Two segmentations running side by side
    par_pdf, par_pno, par_text, par_result, par_pc,
    \* ---- One call of update_document on a database
    upd_type, upd_id, upd_items, upd_total, mongo_fails, store, upd_result, upc,
    \* ---- One call of process_pdf_with_primus and its subprocess
    pdf_file, child, child_state, readers, output_queue, streams_ended,
    over_time, overran, killed, proc_result, ppc,
    \* ---- The pipes of the subprocess and the lines the loop stored
    stream, all_stdout, all_stderr

tabVars == <<lines, line_num, chunks, current_chunk, in_data_section, tpc>>
normVars == <<raw_line, normalized_line, npc>>
engVars == <<plan, pdf, full_document_text, tariffa_found, designazione_found,
             primus_chunks, fraction_chunks, best_chunks, tried, result, raised,
             page_errors, pc>>
cropVars == <<doc, damaged, pno, saved_files, crops, work_item_files, spc>>
assocVars == <<outcomes, pending, extracted_items, work_items, n_crops, linked, apc>>
itemVars == <<item_input, item_list, val_error, item_total, total_raised, ipc>>
jobVars == <<request, quality_result, extraction_result, job_items, job_error,
             total_amount, db_items, n_files, steps, emails, exit_code, temp_file,
             mongo_client, cleanup_log, jpc>>
parVars == <<par_pdf, par_pno, par_text, par_result, par_pc>>
updVars == <<upd_type, upd_id, upd_items, upd_total, mongo_fails, store, upd_result, upc>>
procVars == <<pdf_file, child, child_state, readers, output_queue, streams_ended,
              over_time, overran, killed, proc_result, ppc>>
strVars == <<stream, all_stdout, all_stderr>>
vars == <<tabVars, normVars, engVars, cropVars, assocVars, itemVars, jobVars, parVars,
          updVars, procVars, strVars>>

(***************************************************************************)
(* Characters and character classes of Python's re / str                    *)
(***************************************************************************)
\* A character is a string of one character.  The control characters that
\* Python counts as white space, the no-break space and the characters beyond
\* U+00FF are written "U+hhhh"; of the latter the alphabet of the model holds
\* the Arabic-Indic digits, EM SPACE and the Greek capital and small alpha.
\* [0-9]
AsciiDigits == {"0","1","2","3","4","5","6","7","8","9"}
UpperSeq == <<"A","B","C","D","E","F","G","H","I","J","K","L","M","N","O","P","Q","R","S","T","U","V","W","X","Y","Z">>
LowerSeq == <<"a","b","c","d","e","f","g","h","i","j","k","l","m","n","o","p","q","r","s","t","u","v","w","x","y","z">>
DigitSeq == <<"0","1","2","3","4","5","6","7","8","9">>
HighDigitSeq ==
    <<"U+0660", "U+0661", "U+0662", "U+0663", "U+0664", "U+0665", "U+0666", "U+0667",
      "U+0668", "U+0669">>
\* \d of a str pattern: every Unicode decimal digit
Digits == AsciiDigits \cup {HighDigitSeq[i] : i \in 1..Len(HighDigitSeq)}
\* [A-Z] and [a-z]
Upper == {UpperSeq[i] : i \in 1..Len(UpperSeq)}
Lower == {LowerSeq[i] : i \in 1..Len(LowerSeq)}
\* the letters str.lower changes beyond the ASCII ones, and what it gives
UpperLatin == <<"À","Á","Â","Ã","Ä","Å","Æ","Ç","È","É","Ê","Ë","Ì","Í","Î","Ï","Ð","Ñ","Ò","Ó","Ô","Õ","Ö","Ø","Ù","Ú","Û","Ü","Ý","Þ">> \o <<"U+0391">>
LowerLatin == <<"à","á","â","ã","ä","å","æ","ç","è","é","ê","ë","ì","í","î","ï","ð","ñ","ò","ó","ô","õ","ö","ø","ù","ú","û","ü","ý","þ">> \o <<"U+03B1">>
\* the other characters of \w beyond ASCII that are no decimal digit
OtherWord == <<"ª","²","³","µ","¹","º","¼","½","¾","ß","ÿ">>
NL == "\n"

IsDigit(c) == c \in Digits
IsUpper(c) == c \in Upper
Alphas == Upper \cup Lower
IsAlpha(c) == c \in Alphas
\* \s of a str pattern, str.isspace, what str.strip removes: blank, \t, \n,
\* \r, \f, \x0b, \x1c to \x1f, \x85, \xa0, EM SPACE
Spaces ==
    {" ", "\t", "\n", "\r", "\f", "U+000B", "U+001C", "U+001D", "U+001E", "U+001F", "U+0085",
     "U+00A0", "U+2003"}
IsSpace(c) == c \in Spaces
\* \w of a str pattern: the alphanumeric characters and '_'
WordChars ==
    Upper \cup Lower \cup Digits \cup {"_"}
    \cup {UpperLatin[i] : i \in 1..Len(UpperLatin)}
    \cup {LowerLatin[i] : i \in 1..Len(LowerLatin)}
    \cup {OtherWord[i] : i \in 1..Len(OtherWord)}
IsWord(c) == c \in WordChars

\* str.lower on the characters it changes
Lowered ==
    LET from == UpperSeq \o UpperLatin
        to == LowerSeq \o LowerLatin
    IN [c \in {from[i] : i \in 1..Len(from)} |->
           to[CHOOSE i \in 1..Len(from) : from[i] = c]]
\* str.lower on one character
LowerChar(c) == IF c \in DOMAIN Lowered THEN Lowered[c] ELSE c
\* str.lower
LowerStr(s) == [i \in 1..Len(s) |-> LowerChar(s[i])]
\* int() of one decimal digit
DigitVal(c) ==
    IF c \in AsciiDigits THEN (CHOOSE i \in 1..Len(DigitSeq) : DigitSeq[i] = c) - 1
    ELSE (CHOOSE i \in 1..Len(HighDigitSeq) : HighDigitSeq[i] = c) - 1

MinOf(S) == CHOOSE x \in S : \A y \in S : x <= y
MaxOf(S) == CHOOSE x \in S : \A y \in S : x >= y

\* str.strip
Strip(s) ==
    LET keep == {i \in 1..Len(s) : ~IsSpace(s[i])}
    IN IF keep = {} THEN <<>> ELSE SubSeq(s, MinOf(keep), MaxOf(keep))
\* str.startswith
StartsWith(s, p) == Len(s) >= Len(p) /\ SubSeq(s, 1, Len(p)) = p
\* p in s
Contains(s, p) == \E i \in 1..(Len(s) - Len(p) + 1) : SubSeq(s, i, i + Len(p) - 1) = p
\* first index >= i of s whose character is outside the class, Len(s)+1 if none
RunEnd(s, i, class) ==
    MinOf({j \in i..(Len(s) + 1) : j = Len(s) + 1 \/ s[j] \notin class})

\* len('\n'.join(t)) for a text t given as its lines
RECURSIVE JoinLenRange(_, _, _)
JoinLenRange(t, lo, hi) ==
    IF lo > hi THEN 0
    ELSE IF lo = hi THEN Len(t[lo])
    ELSE LET mid == (lo + hi) \div 2
         IN JoinLenRange(t, lo, mid) + 1 + JoinLenRange(t, mid + 1, hi)
JoinLen(t) == JoinLenRange(t, 1, Len(t))

\* text.strip() for a text given as its lines: blank lines at both ends go,
\* the first line left loses its leading and the last its trailing whitespace
StripText(t) ==
    LET keep == {i \in 1..Len(t) : Strip(t[i]) # <<>>}
    IN IF keep = {} THEN <<>>
       ELSE LET a == MinOf(keep)
                b == MaxOf(keep)
                lstrip(s) == SubSeq(s, RunEnd(s, 1, Spaces), Len(s))
                rstrip(s) == SubSeq(s, 1, Len(s) - (RunEnd([i \in 1..Len(s) |-> s[Len(s) + 1 - i]], 1, Spaces) - 1))
            IN IF a = b THEN <<Strip(t[a])>>
               ELSE <<lstrip(t[a])>> \o SubSeq(t, a + 1, b - 1) \o <<rstrip(t[b])>>

\* 'SOMMANO', the totals keyword
SOMMANO == <<"S","O","M","M","A","N","O">>
\* "SOMMANO" in chunk, for a chunk given as its lines
TextContains(t, p) == \E i \in 1..Len(t) : Contains(t[i], p)

(***************************************************************************)
(* (a) Tabular strategy: PrimusPDFExtractor.extract_primus_format_chunks    *)
(* A chunk under construction is kept as the indices of its lines in        *)
(* `lines`; its text is the stripped lines at those indices.                *)
(***************************************************************************)
\* minimum size floor of a Tabular chunk: len(chunk_text) > 30
PrimusMinLen == 30
\* numeric item numbers must not exceed 100
PrimusMaxItem == 100

\* "DESIGNAZIONE DEI LAVORI" in line_stripped or "LAVORI A CORPO" in line_stripped
IsHeaderLine(s) ==
    Contains(s, <<"D","E","S","I","G","N","A","Z","I","O","N","E"," ","D","E","I"," ","L","A","V","O","R","I">>) \/ Contains(s, <<"L","A","V","O","R","I"," ","A"," ","C","O","R","P","O">>)

\* re.match(r'^(\d{3})(\s|$)', line_stripped)
is_reference_code_ending(s) ==
    /\ Len(s) >= 3
    /\ \A i \in 1..3 : IsDigit(s[i])
    /\ (Len(s) = 3 \/ IsSpace(s[4]))

\* length of the match of [1-9]\d? at the start of s (0: no match)
LeadNumLen(s) ==
    IF Len(s) >= 1 /\ s[1] \in AsciiDigits \ {"0"}
    THEN (IF Len(s) >= 2 /\ IsDigit(s[2]) THEN 2 ELSE 1)
    ELSE 0
\* int(match.group(1)) for a group matched by [1-9]\d?
LeadNum(s) ==
    IF LeadNumLen(s) = 2 THEN 10 * DigitVal(s[1]) + DigitVal(s[2]) ELSE DigitVal(s[1])

\* start index of group(2) of r'^([1-9]\d?)\s+([A-Z][a-zA-Z]{3,})', 0 if no match
MainWordStart(s) ==
    LET n == LeadNumLen(s)
        w == RunEnd(s, n + 1, Spaces)
    IN IF n > 0 /\ w > n + 1 /\ w <= Len(s) /\ IsUpper(s[w])
          /\ RunEnd(s, w + 1, Alphas) - (w + 1) >= 3
       THEN w ELSE 0
main_item_match(s) == MainWordStart(s) > 0
\* main_item_match.group(2)
descriptive_word(s) ==
    LET w == MainWordStart(s) IN SubSeq(s, w, RunEnd(s, w + 1, Alphas) - 1)

\* re.match(r'^([1-9]\d?)/\d+', line_stripped): the optional digit is given
\* back when the slash does not follow it
fraction_match(s) ==
    \E n \in 1..LeadNumLen(s) :
        /\ Len(s) >= n + 2
        /\ s[n + 1] = "/"
        /\ IsDigit(s[n + 2])

\* re.match(r'^(13|37|74)\s+(cemento|metalli|legno)', line_stripped)
special_case_match(s) ==
    /\ Len(s) >= 3
    /\ SubSeq(s, 1, 2) \in {<<"1","3">>, <<"3","7">>, <<"7","4">>}
    /\ LET w == RunEnd(s, 3, Spaces)
       IN /\ w > 3
          /\ \E word \in {<<"c","e","m","e","n","t","o">>, <<"m","e","t","a","l","l","i">>, <<"l","e","g","n","o">>} :
                StartsWith(SubSeq(s, w, Len(s)), word)

\* descriptive_word.lower().startswith(('circuit', 'linea', 'sotto'))
BlacklistedLead(word) ==
    \E p \in {<<"c","i","r","c","u","i","t">>, <<"l","i","n","e","a">>, <<"s","o","t","t","o">>} : StartsWith(LowerStr(word), p)

\* valid_item without the filter of lines 329-330
ValidItemAlways(s) == TRUE
\* valid_item of lines 326-339: only the number + word form is filtered
valid_item(s) ==
    IF main_item_match(s)
    THEN LeadNum(s) <= PrimusMaxItem /\ ~BlacklistedLead(descriptive_word(s))
    ELSE TRUE

\* a line on which a new chunk starts: one of the three matches, and valid
IsItemStart(s) ==
    /\ ~is_reference_code_ending(s)
    /\ (main_item_match(s) \/ fraction_match(s) \/ special_case_match(s))
    /\ valid_item(s)

\* the carry-forward / footer lines of lines 360-363
IsBoilerplate(s) ==
    \/ StartsWith(s, <<"A"," ","R"," ","I"," ","P"," ","O"," ","R"," ","T"," ","A"," ","R"," ","E">>)
    \/ StartsWith(s, <<"R"," ","I"," ","P"," ","O"," ","R"," ","T"," ","O">>)
    \/ StartsWith(s, <<"C","O","M","M","I","T","T","E","N","T","E">>)
    \/ StartsWith(s, <<"P","a","g",".">>)

\* the stripped lines of a chunk held as indices into ls
ChunkText(ls, idx) == [k \in 1..Len(idx) |-> Strip(ls[idx[k]])]
\* len('\n'.join(current_chunk).strip())
ChunkLen(ls, idx) == JoinLen(StripText(ChunkText(ls, idx)))

\* the open chunk saved whatever its length
SealOpenChunkNoFloor(ls, cs, cur) == IF cur # <<>> THEN Append(cs, cur) ELSE cs
\* lines 343-346 and 367-370: the open chunk is saved if it is over the floor
SealOpenChunk(ls, cs, cur) ==
    IF cur # <<>> /\ ChunkLen(ls, cur) > PrimusMinLen THEN Append(cs, cur) ELSE cs

\* PrimusLineStep with a 3-digit line taken as the start of an item
PrimusLineStepRefStarts(st, ls, i) ==
    LET s == Strip(ls[i])
    IN  IF s = <<>> THEN st
        ELSE IF IsHeaderLine(s) THEN [st EXCEPT !.in_data_section = TRUE]
        ELSE IF ~st.in_data_section THEN st
        ELSE IF is_reference_code_ending(s) \/ IsItemStart(s)
             THEN [st EXCEPT !.chunks = SealOpenChunk(ls, @, st.current_chunk),
                             !.current_chunk = <<i>>]
        ELSE IF st.current_chunk # <<>> /\ ~IsBoilerplate(s)
             THEN [st EXCEPT !.current_chunk = Append(@, i)]
        ELSE st

\* PrimusLineStep with the lines met before the first item start kept: they
\* open a chunk of their own
PrimusLineStepKeepsLead(st, ls, i) ==
    LET s == Strip(ls[i])
    IN  IF s = <<>> THEN st
        ELSE IF IsHeaderLine(s) THEN [st EXCEPT !.in_data_section = TRUE]
        ELSE IF ~st.in_data_section THEN st
        ELSE IF IsItemStart(s)
             THEN [st EXCEPT !.chunks = SealOpenChunk(ls, @, st.current_chunk),
                             !.current_chunk = <<i>>]
        ELSE IF ~IsBoilerplate(s)
             THEN [st EXCEPT !.current_chunk = Append(@, i)]
        ELSE st

\* PrimusLineStep with a header line met in the data section closing the
\* open chunk
PrimusLineStepHeaderSeals(st, ls, i) ==
    LET s == Strip(ls[i])
    IN  IF s = <<>> THEN st
        ELSE IF IsHeaderLine(s)
             THEN [st EXCEPT !.in_data_section = TRUE,
                             !.chunks = SealOpenChunk(ls, @, st.current_chunk),
                             !.current_chunk = <<>>]
        ELSE IF ~st.in_data_section THEN st
        ELSE IF is_reference_code_ending(s)
             THEN (IF st.current_chunk # <<>>
                   THEN [st EXCEPT !.current_chunk = Append(@, i)] ELSE st)
        ELSE IF main_item_match(s) \/ fraction_match(s) \/ special_case_match(s)
             THEN (IF valid_item(s)
                   THEN [st EXCEPT !.chunks = SealOpenChunk(ls, @, st.current_chunk),
                                   !.current_chunk = <<i>>]
                   ELSE IF st.current_chunk # <<>>
                        THEN [st EXCEPT !.current_chunk = Append(@, i)] ELSE st)
        ELSE IF st.current_chunk # <<>> /\ ~IsBoilerplate(s)
             THEN [st EXCEPT !.current_chunk = Append(@, i)]
        ELSE st

\* One turn of the loop of lines 279-364 on line i of ls.
\* st is [chunks, current_chunk, in_data_section].
PrimusLineStep(st, ls, i) ==
    LET s == Strip(ls[i])
    IN  IF s = <<>> THEN st
        ELSE IF IsHeaderLine(s) THEN [st EXCEPT !.in_data_section = TRUE]
        ELSE IF ~st.in_data_section THEN st
        ELSE IF is_reference_code_ending(s)
             THEN (IF st.current_chunk # <<>>
                   THEN [st EXCEPT !.current_chunk = Append(@, i)] ELSE st)
        ELSE IF main_item_match(s) \/ fraction_match(s) \/ special_case_match(s)
             THEN (IF valid_item(s)
                   THEN [st EXCEPT !.chunks = SealOpenChunk(ls, @, st.current_chunk),
                                   !.current_chunk = <<i>>]
                   ELSE IF st.current_chunk # <<>>
                        THEN [st EXCEPT !.current_chunk = Append(@, i)] ELSE st)
        ELSE IF st.current_chunk # <<>> /\ ~IsBoilerplate(s)
             THEN [st EXCEPT !.current_chunk = Append(@, i)]
        ELSE st

PrimusStart == [chunks |-> <<>>, current_chunk |-> <<>>, in_data_section |-> FALSE]

\* the loop over lines lo..hi, in order (halved so that long texts evaluate)
RECURSIVE PrimusScan(_, _, _, _)
PrimusScan(ls, lo, hi, st) ==
    IF lo > hi THEN st
    ELSE IF lo = hi THEN PrimusLineStep(st, ls, lo)
    ELSE LET mid == (lo + hi) \div 2
             left == PrimusScan(ls, lo, mid, st)
         IN IF left.in_data_section \in BOOLEAN
            THEN PrimusScan(ls, mid + 1, hi, left) ELSE left

\* the chunks of the Tabular strategy as index lists
PrimusChunkIdx(ls) ==
    LET st == PrimusScan(ls, 1, Len(ls), PrimusStart)
    IN SealOpenChunk(ls, st.chunks, st.current_chunk)

\* extract_primus_format_chunks(full_document_text): the chunk texts
extract_primus_format_chunks(ls) ==
    LET idx == PrimusChunkIdx(ls)
    IN [k \in 1..Len(idx) |-> StripText(ChunkText(ls, idx[k]))]

(***************************************************************************)
(* Line Normalizer: PrimusPDFExtractor.is_junk_line, normalize_text_line    *)
(***************************************************************************)
\* re.sub(r'\s*SEP\s*', SEP, s) from index i on: at each place the longest
\* whitespace run is tried first; it is replaced, with the separator and the
\* whitespace after it, only when the separator follows it
RECURSIVE TightenFrom(_, _, _)
TightenFrom(s, i, sep) ==
    IF i > Len(s) THEN <<>>
    ELSE LET j == RunEnd(s, i, Spaces)
         IN IF j <= Len(s) /\ s[j] = sep
            THEN <<sep>> \o TightenFrom(s, RunEnd(s, j + 1, Spaces), sep)
            ELSE <<s[i]>> \o TightenFrom(s, i + 1, sep)
TightenAround(s, sep) == TightenFrom(s, 1, sep)

\* TightenAround that only drops the whitespace before the separator
RECURSIVE TightenBeforeFrom(_, _, _)
TightenBeforeFrom(s, i, sep) ==
    IF i > Len(s) THEN <<>>
    ELSE LET j == RunEnd(s, i, Spaces)
         IN IF j <= Len(s) /\ s[j] = sep
            THEN <<sep>> \o TightenBeforeFrom(s, j + 1, sep)
            ELSE <<s[i]>> \o TightenBeforeFrom(s, i + 1, sep)
TightenBefore(s, sep) == TightenBeforeFrom(s, 1, sep)

\* re.sub(r'\s+', ' ', s) from index i on
RECURSIVE CollapseFrom(_, _)
CollapseFrom(s, i) ==
    IF i > Len(s) THEN <<>>
    ELSE IF IsSpace(s[i]) THEN <<" ">> \o CollapseFrom(s, RunEnd(s, i, Spaces))
    ELSE <<s[i]>> \o CollapseFrom(s, i + 1)
CollapseSpaces(s) == CollapseFrom(s, 1)

\* normalize_text_line whose separator step leaves the whitespace after '/'
\* and '-' in place
NormalizeLoose(line) ==
    IF line = <<>> THEN line
    ELSE Strip(CollapseSpaces(TightenBefore(TightenBefore(line, "/"), "-")))

normalize_text_line(line) ==
    IF line = <<>> THEN line
    ELSE Strip(CollapseSpaces(TightenAround(TightenAround(line, "/"), "-")))

\* the regular expressions of junk_patterns, each on the lower-cased,
\* stripped line t, in the order of the list
JunkPagNum(t) ==                         \* ^pag\.\s*\d+$
    /\ StartsWith(t, <<"p","a","g",".">>)
    /\ LET d == RunEnd(t, 5, Spaces)
       IN d <= Len(t) /\ RunEnd(t, d, Digits) = Len(t) + 1
JunkParziale(t) ==                       \* parziale s\d{2}-s\d{2}
    \E i \in 1..(Len(t) - 15) :
        /\ SubSeq(t, i, i + 9) = <<"p","a","r","z","i","a","l","e"," ","s">>
        /\ IsDigit(t[i + 10]) /\ IsDigit(t[i + 11])
        /\ t[i + 12] = "-" /\ t[i + 13] = "s"
        /\ IsDigit(t[i + 14]) /\ IsDigit(t[i + 15])
JunkVia(t) ==                            \* ^via\s*\.{3,}
    /\ StartsWith(t, <<"v","i","a">>)
    /\ LET d == RunEnd(t, 4, Spaces)
       IN d + 2 <= Len(t) /\ t[d] = "." /\ t[d + 1] = "." /\ t[d + 2] = "."

is_junk_line(text) ==
    LET t == LowerStr(Strip(text))
    IN  \/ t = <<>>
        \/ JunkPagNum(t)
        \/ t = <<"r"," ","i"," ","p"," ","o"," ","r"," ","t"," ","o">>
        \/ StartsWith(t, <<"c","o","m","m","i","t","t","e","n","t","e",":">>)
        \/ StartsWith(t, <<"a"," ","r"," ","i"," ","p"," ","o"," ","r"," ","t"," ","a"," ","r"," ","e">>)
        \/ Contains(t, <<"d"," ","i"," ","m"," ","e"," ","n"," ","s"," ","i"," ","o"," ","n"," ","i">>)
        \/ Contains(t, <<"i"," ","m"," ","p"," ","o"," ","r"," ","t"," ","i">>)
        \/ JunkParziale(t)
        \/ Contains(t, <<"r","i","e","p","l","o","g","o"," ","s","u","p","e","r"," ","c","a","t","e","g","o","r","i","e">>)
        \/ JunkVia(t)
        \/ StartsWith(t, <<"n","u","m",".","o","r","d",".">>)
        \/ t = <<"q","u","a","n","t","i","t","à">>
        \/ StartsWith(t, <<"p","a","r",".","u","g",".">>)
        \/ StartsWith(t, <<"l","u","n","g",".">>)
        \/ StartsWith(t, <<"l","a","r","g",".">>)
        \/ StartsWith(t, <<"h","/","p","e","s","o">>)
        \/ StartsWith(t, <<"u","n","i","t","a","r","i","o">>)
        \/ t = <<"t","o","t","a","l","e">>

(***************************************************************************)
(* (b) Fraction-numbered strategy: extract_fraction_format_chunks           *)
(* Chunks are texts: the sequence of their (stripped) lines.                *)
(***************************************************************************)
\* minimum size floor of a fraction chunk: len(chunk_text) > 50
FractionMinLen == 50

\* re.match(r'^(\d+)/\d+(?:\s+\d+|\s+[A-Z])', line_stripped)
fraction_start_match(s) ==
    LET d1 == RunEnd(s, 1, Digits)
        d2 == RunEnd(s, d1 + 1, Digits)
        w  == RunEnd(s, d2, Spaces)
    IN  /\ d1 > 1 /\ d1 <= Len(s) /\ s[d1] = "/"
        /\ d2 > d1 + 1
        /\ w > d2 /\ w <= Len(s)
        /\ (IsDigit(s[w]) \/ IsUpper(s[w]))

\* lines 407-410, 423-425, 430-433: the chunk is saved if it is over the floor
SealFractionChunk(cs, cur) ==
    IF cur # <<>> /\ JoinLen(StripText(cur)) > FractionMinLen
    THEN Append(cs, StripText(cur)) ELSE cs

\* FractionLineStep with a totals line appended like any other continuation
FractionLineStepLazy(st, ls, i) ==
    LET s == Strip(ls[i])
    IN  IF s = <<>> THEN st
        ELSE IF fraction_start_match(s)
             THEN [chunks |-> SealFractionChunk(st.chunks, st.current_chunk),
                   current_chunk |-> <<s>>]
        ELSE IF st.current_chunk # <<>>
             THEN [st EXCEPT !.current_chunk = Append(@, s)]
        ELSE st

\* one turn of the loop of lines 394-427; st is [chunks, current_chunk]
FractionLineStep(st, ls, i) ==
    LET s == Strip(ls[i])
    IN  IF s = <<>> THEN st
        ELSE IF fraction_start_match(s)
             THEN [chunks |-> SealFractionChunk(st.chunks, st.current_chunk),
                   current_chunk |-> <<s>>]
        ELSE IF st.current_chunk # <<>>
             THEN (IF Contains(s, SOMMANO)
                   THEN [chunks |-> SealFractionChunk(st.chunks, Append(st.current_chunk, s)),
                         current_chunk |-> <<>>]
                   ELSE [st EXCEPT !.current_chunk = Append(@, s)])
        ELSE st

RECURSIVE FractionScan(_, _, _, _)
FractionScan(ls, lo, hi, st) ==
    IF lo > hi THEN st
    ELSE IF lo = hi THEN FractionLineStep(st, ls, lo)
    ELSE LET mid == (lo + hi) \div 2
             left == FractionScan(ls, lo, mid, st)
         IN IF DOMAIN left # {}
            THEN FractionScan(ls, mid + 1, hi, left) ELSE left

\* extract_fraction_format_chunks(full_document_text)
extract_fraction_format_chunks(ls) ==
    LET st == FractionScan(ls, 1, Len(ls), [chunks |-> <<>>, current_chunk |-> <<>>])
    IN SealFractionChunk(st.chunks, st.current_chunk)

(***************************************************************************)
(* (c) Generic pattern cascade and (d) delimiter-driven fallback, lines     *)
(* 203-253 of extract_work_item_chunks.  The patterns are matched on the    *)
(* whole text: a place in the text is <<line, column>>, the column after    *)
(* the last one of a line being the "\n" that follows it (whitespace).      *)
(***************************************************************************)
\* a cascade segment is kept if len(chunk.strip()) > 50
CascadeMinLen == 50
\* the fallback seals a buffer of more than 5 lines
FallbackMinLines == 5
NumPatterns == 3

\* the character at place p of text ls; "" past the end of the text
CharAt(ls, p) ==
    IF p[2] <= Len(ls[p[1]]) THEN ls[p[1]][p[2]]
    ELSE IF p[1] < Len(ls) THEN NL ELSE ""
\* the first place at or after p that holds no whitespace (\s* from p)
RECURSIVE SkipSpace(_, _)
SkipSpace(ls, p) ==
    IF p[2] <= Len(ls[p[1]])
    THEN (IF IsSpace(ls[p[1]][p[2]]) THEN SkipSpace(ls, <<p[1], p[2] + 1>>) ELSE p)
    ELSE IF p[1] < Len(ls) THEN SkipSpace(ls, <<p[1] + 1, 1>>) ELSE p
\* the place after the digits that start at p (\d* from p)
SkipDigits(ls, p) == <<p[1], RunEnd(ls[p[1]], p[2], Digits)>>

\* r'(?=\n\d+\s*/\s*\d+\s+[A-Za-z])' at the "\n" before line j
FractionTextPattern(ls, j) ==
    LET d1 == SkipDigits(ls, <<j, 1>>)
        s1 == SkipSpace(ls, d1)
        s2 == SkipSpace(ls, <<s1[1], s1[2] + 1>>)
        d2 == SkipDigits(ls, s2)
        s3 == SkipSpace(ls, d2)
    IN  /\ d1 # <<j, 1>>
        /\ CharAt(ls, s1) = "/"
        /\ d2 # s2
        /\ s3 # d2
        /\ IsAlpha(CharAt(ls, s3))
\* r'(?=\n(?!\d{3}\s)\d+\s+[A-Z])' at the "\n" before line j
NumberTextPattern(ls, j) ==
    LET d1 == SkipDigits(ls, <<j, 1>>)
        s1 == SkipSpace(ls, d1)
    IN  /\ ~(d1[2] >= 4 /\ IsSpace(CharAt(ls, <<j, 4>>)))
        /\ d1 # <<j, 1>>
        /\ s1 # d1
        /\ IsUpper(CharAt(ls, s1))
\* r'(?=\n\d+\s+\d+\.\w+)' at the "\n" before line j
TariffTextPattern(ls, j) ==
    LET d1 == SkipDigits(ls, <<j, 1>>)
        s1 == SkipSpace(ls, d1)
        d2 == SkipDigits(ls, s1)
    IN  /\ d1 # <<j, 1>>
        /\ s1 # d1
        /\ d2 # s1
        /\ CharAt(ls, d2) = "."
        /\ IsWord(CharAt(ls, <<d2[1], d2[2] + 1>>))
\* patterns_to_try[k - 1] matches at the "\n" before line j
PatternAt(k, ls, j) ==
    CASE k = 1 -> FractionTextPattern(ls, j)
      [] k = 2 -> NumberTextPattern(ls, j)
      [] k = 3 -> TariffTextPattern(ls, j)

\* item_start_pattern.split(full_document_text) as line ranges <<first, last>>:
\* the text is cut before every "\n" at which the pattern matches
SplitStep(st, k, ls, j) ==
    IF j >= 2 /\ PatternAt(k, ls, j)
    THEN [segs |-> Append(st.segs, <<st.from, j - 1>>), from |-> j]
    ELSE st
RECURSIVE SplitScan(_, _, _, _, _)
SplitScan(k, ls, lo, hi, st) ==
    IF lo > hi THEN st
    ELSE IF lo = hi THEN SplitStep(st, k, ls, lo)
    ELSE LET mid == (lo + hi) \div 2
             left == SplitScan(k, ls, lo, mid, st)
         IN IF DOMAIN left # {}
            THEN SplitScan(k, ls, mid + 1, hi, left) ELSE left
\* PatternSplit losing the text after the last cut
PatternSplitDropsTail(k, ls) ==
    SplitScan(k, ls, 1, Len(ls), [segs |-> <<>>, from |-> 1]).segs
PatternSplit(k, ls) ==
    LET st == SplitScan(k, ls, 1, Len(ls), [segs |-> <<>>, from |-> 1])
    IN Append(st.segs, <<st.from, Len(ls)>>)

\* lines 222-225: the segments that hold SOMMANO and are long enough, stripped
ValidChunks(k, ls) ==
    LET segs == PatternSplit(k, ls)
        text(r) == SubSeq(ls, r[1], r[2])
        valid(r) == /\ StripText(text(r)) # <<>>
                    /\ TextContains(text(r), SOMMANO)
                    /\ JoinLen(StripText(text(r))) > CascadeMinLen
        kept == SelectSeq(segs, valid)
    IN [n \in 1..Len(kept) |-> StripText(text(kept[n]))]

\* BestOf with a later pattern replacing an earlier one of equal count
RECURSIVE BestOfLast(_, _)
BestOfLast(k, ls) ==
    IF k = 0 THEN <<>>
    ELSE LET best == BestOfLast(k - 1, ls)
             valid_chunks == ValidChunks(k, ls)
         IN IF Len(valid_chunks) >= Len(best) THEN valid_chunks ELSE best
\* lines 213-235: the loop over patterns 1..k keeps the first longest list
RECURSIVE BestOf(_, _)
BestOf(k, ls) ==
    IF k = 0 THEN <<>>
    ELSE LET best == BestOf(k - 1, ls)
             valid_chunks == ValidChunks(k, ls)
         IN IF Len(valid_chunks) > Len(best) THEN valid_chunks ELSE best
CascadeChunks(ls) == BestOf(NumPatterns, ls)

\* re.search(r'^\d+\s+', chunk_text.strip()) for a stripped text t
LeadingNumber(t) ==
    /\ t # <<>>
    /\ LET d == SkipDigits(t, <<1, 1>>)
       IN d # <<1, 1>> /\ IsSpace(CharAt(t, d))

\* FallbackLineStep keeping a buffer that does not start with a number
FallbackLineStepKeeps(st, ls, i) ==
    LET cur == Append(st.current_chunk, ls[i])
    IN  IF Contains(ls[i], SOMMANO) /\ Len(cur) > FallbackMinLines
           /\ LeadingNumber(StripText(cur))
        THEN [chunks |-> Append(st.chunks, StripText(cur)), current_chunk |-> <<>>]
        ELSE [st EXCEPT !.current_chunk = cur]
\* one turn of the loop of lines 244-251; st is [chunks, current_chunk]
FallbackLineStep(st, ls, i) ==
    LET cur == Append(st.current_chunk, ls[i])
    IN  IF Contains(ls[i], SOMMANO) /\ Len(cur) > FallbackMinLines
        THEN [chunks |-> IF LeadingNumber(StripText(cur))
                         THEN Append(st.chunks, StripText(cur)) ELSE st.chunks,
              current_chunk |-> <<>>]
        ELSE [st EXCEPT !.current_chunk = cur]
RECURSIVE FallbackScan(_, _, _, _)
FallbackScan(ls, lo, hi, st) ==
    IF lo > hi THEN st
    ELSE IF lo = hi THEN FallbackLineStep(st, ls, lo)
    ELSE LET mid == (lo + hi) \div 2
             left == FallbackScan(ls, lo, mid, st)
         IN IF DOMAIN left # {}
            THEN FallbackScan(ls, mid + 1, hi, left) ELSE left
FallbackChunks(ls) ==
    FallbackScan(ls, 1, Len(ls), [chunks |-> <<>>, current_chunk |-> <<>>]).chunks

(***************************************************************************)
(* The engine: PrimusPDFExtractor.extract_work_item_chunks                  *)
(* A pdf is [openable, pages]; a page is [ok, text], text being the lines   *)
(* of page.extract_text() and ok = FALSE a page whose extraction raises.    *)
(***************************************************************************)
\* len(primus_chunks) > 200 and len(fraction_chunks) > 200
PrimusThreshold == 200
FractionThreshold == 200

TARIFFA == <<"T","A","R","I","F","F","A">>
DESIGNAZIONE == <<"D","E","S","I","G","N","A","Z","I","O","N","E"," ","D","E","I"," ","L","A","V","O","R","I">>

\* lines 153-158: the lines of a page that are not junk, normalized, the
\* ones that normalize to nothing dropped
CleanedLines(text) ==
    LET kept == SelectSeq(text, LAMBDA l : ~is_junk_line(l))
        norm == [i \in 1..Len(kept) |-> normalize_text_line(kept[i])]
    IN SelectSeq(norm, LAMBDA l : l # <<>>)

\* full_document_text += "\n".join(cleaned_lines) + "\n", texts as lines
AppendPageText(doc_text, cleaned) ==
    LET front == SubSeq(doc_text, 1, Len(doc_text) - 1)
        last == doc_text[Len(doc_text)]
    IN IF cleaned = <<>> THEN front \o <<last, <<>> >>
       ELSE front \o <<last \o cleaned[1]>> \o SubSeq(cleaned, 2, Len(cleaned)) \o << <<>> >>

\* ReadPage with the text read so far lost when a page raises
ReadPageLosesText(doc_text, page) ==
    IF ~page.ok THEN << <<>> >>
    ELSE IF page.text = <<>> \/ page.text = << <<>> >> THEN doc_text
    ELSE AppendPageText(doc_text, CleanedLines(page.text))

\* lines 149-165 for one page: a page that raises or has no text is skipped
ReadPage(doc_text, page) ==
    IF ~page.ok THEN doc_text
    ELSE IF page.text = <<>> \/ page.text = << <<>> >> THEN doc_text
    ELSE AppendPageText(doc_text, CleanedLines(page.text))

\* lines 144-165: the loop over the first n pages, from the empty text
RECURSIVE ReadPages(_, _)
ReadPages(pages, n) ==
    IF n = 0 THEN << <<>> >> ELSE ReadPage(ReadPages(pages, n - 1), pages[n])

\* lines 163-165: the 1-based numbers of the pages whose failure is logged
LoggedPageErrors(pages) == {i \in 1..Len(pages) : ~pages[i].ok}

\* lines 265-267: what the caller gets when anything in the try block raises
ExceptHandlerReraises == [result |-> <<>>, raised |-> TRUE]
ExceptHandler == [result |-> <<>>, raised |-> FALSE]

\* lines 187 and 195: a specialized result is returned if it is long enough
\* line 187 with the threshold one too high
AcceptPrimusLate(cs) == cs # <<>> /\ Len(cs) > PrimusThreshold + 1
AcceptPrimus(cs) == cs # <<>> /\ Len(cs) > PrimusThreshold
\* line 195 accepting any non-empty list
AcceptFractionAtOnce(cs) == cs # <<>>
AcceptFraction(cs) == cs # <<>> /\ Len(cs) > FractionThreshold

\* the format detected on either marker alone
FormatDetectedEither(t, d) == t \/ d
\* line 182
FormatDetected(t, d) == t /\ d

\* lines 144-165: pdfplumber.open raises, or the text is read page by page
OpenAndRead ==
    /\ pc = "start"
    /\ IF ~pdf.openable
       THEN /\ result' = ExceptHandler.result
            /\ raised' = ExceptHandler.raised
            /\ pc' = "done"
            /\ UNCHANGED <<full_document_text, page_errors>>
       ELSE /\ full_document_text' = ReadPages(pdf.pages, Len(pdf.pages))
            /\ page_errors' = LoggedPageErrors(pdf.pages)
            /\ pc' = "detect"
            /\ UNCHANGED <<result, raised>>
    /\ UNCHANGED <<plan, pdf, tariffa_found, designazione_found, primus_chunks,
                   fraction_chunks, best_chunks, tried>>
    /\ UNCHANGED <<tabVars, normVars, cropVars, assocVars, itemVars, jobVars, parVars, updVars, procVars, strVars>>

\* lines 167-182: format detection
DetectFormat ==
    /\ pc = "detect"
    /\ tariffa_found' = TextContains(full_document_text, TARIFFA)
    /\ designazione_found' = TextContains(full_document_text, DESIGNAZIONE)
    /\ pc' = IF FormatDetected(tariffa_found', designazione_found')
             THEN "primus" ELSE "cascade"
    /\ UNCHANGED <<plan, pdf, page_errors, full_document_text, primus_chunks, fraction_chunks,
                   best_chunks, tried, result, raised>>
    /\ UNCHANGED <<tabVars, normVars, cropVars, assocVars, itemVars, jobVars, parVars, updVars, procVars, strVars>>

\* lines 185-191: the Tabular strategy
TryPrimus ==
    /\ pc = "primus"
    /\ primus_chunks' = extract_primus_format_chunks(full_document_text)
    /\ tried' = Append(tried, "primus")
    /\ IF AcceptPrimus(primus_chunks')
       THEN result' = primus_chunks' /\ pc' = "done"
       ELSE result' = result /\ pc' = "fraction"
    /\ UNCHANGED <<plan, pdf, page_errors, full_document_text, tariffa_found, designazione_found,
                   fraction_chunks, best_chunks, raised>>
    /\ UNCHANGED <<tabVars, normVars, cropVars, assocVars, itemVars, jobVars, parVars, updVars, procVars, strVars>>

\* lines 193-201: the fraction-numbered strategy
TryFraction ==
    /\ pc = "fraction"
    /\ fraction_chunks' = extract_fraction_format_chunks(full_document_text)
    /\ tried' = Append(tried, "fraction")
    /\ IF AcceptFraction(fraction_chunks')
       THEN result' = fraction_chunks' /\ pc' = "done"
       ELSE result' = result /\ pc' = "cascade"
    /\ UNCHANGED <<plan, pdf, page_errors, full_document_text, tariffa_found, designazione_found,
                   primus_chunks, best_chunks, raised>>
    /\ UNCHANGED <<tabVars, normVars, cropVars, assocVars, itemVars, jobVars, parVars, updVars, procVars, strVars>>

\* lines 203-235: the generic cascade
TryCascade ==
    /\ pc = "cascade"
    /\ best_chunks' = CascadeChunks(full_document_text)
    /\ tried' = Append(tried, "cascade")
    /\ pc' = IF best_chunks' = <<>> THEN "fallback" ELSE "return"
    /\ UNCHANGED <<plan, pdf, page_errors, full_document_text, tariffa_found, designazione_found,
                   primus_chunks, fraction_chunks, result, raised>>
    /\ UNCHANGED <<tabVars, normVars, cropVars, assocVars, itemVars, jobVars, parVars, updVars, procVars, strVars>>

\* lines 237-253: the delimiter-driven fallback
TryFallback ==
    /\ pc = "fallback"
    /\ best_chunks' = FallbackChunks(full_document_text)
    /\ tried' = Append(tried, "fallback")
    /\ pc' = "return"
    /\ UNCHANGED <<plan, pdf, page_errors, full_document_text, tariffa_found, designazione_found,
                   primus_chunks, fraction_chunks, result, raised>>
    /\ UNCHANGED <<tabVars, normVars, cropVars, assocVars, itemVars, jobVars, parVars, updVars, procVars, strVars>>

\* line 264
ReturnBest ==
    /\ pc = "return"
    /\ result' = best_chunks
    /\ pc' = "done"
    /\ UNCHANGED <<plan, pdf, page_errors, full_document_text, tariffa_found, designazione_found,
                   primus_chunks, fraction_chunks, best_chunks, tried, raised>>
    /\ UNCHANGED <<tabVars, normVars, cropVars, assocVars, itemVars, jobVars, parVars, updVars, procVars, strVars>>

EngNext ==
    \/ OpenAndRead \/ DetectFormat \/ TryPrimus \/ TryFraction
    \/ TryCascade \/ TryFallback \/ ReturnBest

\* the chunk list extract_work_item_chunks returns on a text already read
EngineOnText(ls) ==
    LET both == FormatDetected(TextContains(ls, TARIFFA), TextContains(ls, DESIGNAZIONE))
        p == extract_primus_format_chunks(ls)
        f == extract_fraction_format_chunks(ls)
        c == CascadeChunks(ls)
    IN  IF both /\ AcceptPrimus(p) THEN p
        ELSE IF both /\ AcceptFraction(f) THEN f
        ELSE IF c # <<>> THEN c
        ELSE FallbackChunks(ls)

(***************************************************************************)
(* Row geometry splitter: crop_rows_by_keyword and the numbering of its     *)
(* crops in split_pdf_by_sommano.  A page is [rect, hits, blocks]: rect its *)
(* rectangle, hits what page.search_for(keyword) returns, blocks the top    *)
(* edges of page.get_text("blocks").  A rectangle is [x0, y0, x1, y1].      *)
(***************************************************************************)
left_margin == 6
right_margin == 6
extend_top == 0 - 4
extend_bottom == 6
include_keyword_padding == 8
\* crop.height >= 6 and crop.width >= 6
MinCropSize == 6
\* page_top = page.rect.y0 + 10
PageTopOffset == 10
\* prev_bottom = rect.y1 + 2
NextRowGap == 2

\* fitz.Rect.is_empty, height and width (0 for a rectangle that is not valid)
RectIsEmpty(r) == r.x0 >= r.x1 \/ r.y0 >= r.y1
RectHeight(r) == IF r.y1 > r.y0 THEN r.y1 - r.y0 ELSE 0
RectWidth(r) == IF r.x1 > r.x0 THEN r.x1 - r.x0 ELSE 0
\* crop & page.rect: an empty rectangle stays as it is
RectAnd(a, b) ==
    IF RectIsEmpty(b) THEN b
    ELSE IF RectIsEmpty(a) THEN a
    ELSE [x0 |-> IF a.x0 > b.x0 THEN a.x0 ELSE b.x0,
          y0 |-> IF a.y0 > b.y0 THEN a.y0 ELSE b.y0,
          x1 |-> IF a.x1 < b.x1 THEN a.x1 ELSE b.x1,
          y1 |-> IF a.y1 < b.y1 THEN a.y1 ELSE b.y1]

\* sorted(hits, key=lambda r: (r.y0, r.x0)): stable, by insertion
HitBefore(a, b) == a.y0 < b.y0 \/ (a.y0 = b.y0 /\ a.x0 < b.x0)
RECURSIVE SortHits(_, _)
SortHits(hits, n) ==
    IF n = 0 THEN <<>>
    ELSE LET done == SortHits(hits, n - 1)
             h == hits[n]
             k == Cardinality({i \in 1..Len(done) : ~HitBefore(h, done[i])})
         IN SubSeq(done, 1, k) \o <<h>> \o SubSeq(done, k + 1, Len(done))

\* lines 74-77
PageTop(page) ==
    IF page.blocks = <<>> THEN page.rect.y0 + PageTopOffset
    ELSE MinOf({page.blocks[i] : i \in 1..Len(page.blocks)}) + extend_top

\* decimal digits of n, at least two of them: f"{n:02d}"
RECURSIVE DecimalDigits(_)
DecimalDigits(n) ==
    IF n < 10 THEN <<DigitSeq[n + 1]>>
    ELSE DecimalDigits(n \div 10) \o <<DigitSeq[(n % 10) + 1]>>
Pad2(n) == IF n < 10 THEN <<"0">> \o DecimalDigits(n) ELSE DecimalDigits(n)
\* f"page{pno+1:02d}_row{row_idx:02d}.png" for the 0-based page number pno
FileName(p, row_idx) ==
    <<"p","a","g","e">> \o Pad2(p + 1) \o <<"_","r","o","w">> \o Pad2(row_idx) \o <<".","p","n","g">>

\* CropRect ending at the bottom edge of the occurrence plus extend_bottom
CropRectNoPadding(page, prev_bottom, rect) ==
    RectAnd([x0 |-> page.rect.x0 + left_margin,
             y0 |-> prev_bottom,
             x1 |-> page.rect.x1 - right_margin,
             y1 |-> rect.y1 + extend_bottom],
            page.rect)
\* lines 82-85 and 92: the crop of a hit given the cursor prev_bottom
CropRect(page, prev_bottom, rect) ==
    RectAnd([x0 |-> page.rect.x0 + left_margin,
             y0 |-> prev_bottom,
             x1 |-> page.rect.x1 - right_margin,
             y1 |-> rect.y1 + extend_bottom + include_keyword_padding],
            page.rect)
\* every crop kept, whatever its size
CropKeptAlways(crop) == TRUE
\* line 93
CropKept(crop) == RectHeight(crop) >= MinCropSize /\ RectWidth(crop) >= MinCropSize

\* CropStep with the cursor moved to the bottom of the crop
CropStepCursorAtCropBottom(st, page, p, rect) ==
    LET crop == CropRect(page, st.prev_bottom, rect)
    IN [saved |-> IF CropKept(crop)
                  THEN Append(st.saved, [page |-> p + 1, row |-> st.row_idx, rect |-> crop,
                                         fname |-> FileName(p, st.row_idx)])
                  ELSE st.saved,
        row_idx |-> IF CropKept(crop) THEN st.row_idx + 1 ELSE st.row_idx,
        prev_bottom |-> crop.y1 + NextRowGap]

\* one turn of the loop of lines 82-101; st is [saved, row_idx, prev_bottom]
CropStep(st, page, p, rect) ==
    LET crop == CropRect(page, st.prev_bottom, rect)
    IN [saved |-> IF CropKept(crop)
                  THEN Append(st.saved, [page |-> p + 1, row |-> st.row_idx, rect |-> crop,
                                         fname |-> FileName(p, st.row_idx)])
                  ELSE st.saved,
        row_idx |-> IF CropKept(crop) THEN st.row_idx + 1 ELSE st.row_idx,
        prev_bottom |-> rect.y1 + NextRowGap]
RECURSIVE CropHits(_, _, _, _)
CropHits(page, p, hits, n) ==
    IF n = 0 THEN [saved |-> <<>>, row_idx |-> 1, prev_bottom |-> PageTop(page)]
    ELSE CropStep(CropHits(page, p, hits, n - 1), page, p, hits[n])
\* lines 66-101 for the page of 0-based number p: the crops it saves
PageCrops(page, p) ==
    LET hits == SortHits(page.hits, Len(page.hits))
    IN CropHits(page, p, hits, Len(hits)).saved

\* order of the characters of file names in str comparison
NameChars == <<".","0","1","2","3","4","5","6","7","8","9","_","a","e","g","n","o","p","r","w">>
CodeRank(c) == CHOOSE i \in 1..Len(NameChars) : NameChars[i] = c
\* a < b for str
StrLess(a, b) ==
    \E i \in 1..(Len(a) + 1) :
        /\ i <= Len(b)
        /\ \A j \in 1..(i - 1) : j <= Len(a) /\ a[j] = b[j]
        /\ (i = Len(a) + 1 \/ CodeRank(a[i]) < CodeRank(b[i]))
\* sorted(names) for a set of distinct names
RECURSIVE SortNames(_)
SortNames(S) ==
    IF S = {} THEN <<>>
    ELSE LET m == CHOOSE a \in S : \A b \in S \ {a} : StrLess(a, b)
         IN <<m>> \o SortNames(S \ {m})
\* lines 557 and 570-600 of extractMetricComputation.py: png_files, whose
\* entry i is the file of work_item_files[i]
NumberedFiles(files) == SortNames({files[i] : i \in 1..Len(files)})

(***************************************************************************)
(* Extraction of the chunks and association of the crops: main of           *)
(* extract_primus_specialized.py, then validate_and_normalize_workitems,    *)
(* split_pdf_by_sommano and update_work_items_with_files of                 *)
(* extractMetricComputation.py.  An outcome is what the external extractor  *)
(* answers on a chunk: [ok, num], ok = FALSE a rejected chunk, num the      *)
(* progressiveNumber it reports (0: none).  An item remembers the chunk     *)
(* it was extracted from.                                                   *)
(***************************************************************************)
\* x.get('progressiveNumber') or 999
MissingNumberKey == 999
SortKey(item) ==
    IF item.progressiveNumber = 0 THEN MissingNumberKey ELSE item.progressiveNumber

\* extracted_items.sort(key=...): stable, by insertion
RECURSIVE SortItemsByNumber(_, _)
SortItemsByNumber(items, n) ==
    IF n = 0 THEN <<>>
    ELSE LET done == SortItemsByNumber(items, n - 1)
             x == items[n]
             k == Cardinality({i \in 1..Len(done) : SortKey(done[i]) <= SortKey(x)})
         IN SubSeq(done, 1, k) \o <<x>> \o SubSeq(done, k + 1, Len(done))

\* lines 222-227: item['progressiveNumber'] = i + 1
Renumber(items) == [i \in 1..Len(items) |-> [items[i] EXCEPT !.progressiveNumber = i]]

\* lines 622-626: an item gets the file of its progressiveNumber, if there
\* is one; any other item is left as it is, with the file it may have
AttachFiles(items, n) ==
    [i \in 1..Len(items) |->
        [items[i] EXCEPT !.file = IF items[i].progressiveNumber \in 1..n
                                  THEN items[i].progressiveNumber ELSE @]]

(***************************************************************************)
(* Work items as main of extractMetricComputation.py handles them.  A      *)
(* value of a dict key is tagged with its Python kind: "missing" (the key  *)
(* is absent), "none", "num" (int or float, n its value), "str" (s its     *)
(* value) or "other" (a non-empty list).  progressiveNumber and file are   *)
(* kept as in the association above (0: none).  The workItems argument is  *)
(* [islist, items]; islist = FALSE is a value that is no list.             *)
(***************************************************************************)
Missing == [t |-> "missing", n |-> 0, s |-> ""]
None == [t |-> "none", n |-> 0, s |-> ""]
Num(k) == [t |-> "num", n |-> k, s |-> ""]
Str(x) == [t |-> "str", n |-> 0, s |-> x]
Other == [t |-> "other", n |-> 0, s |-> ""]

\* lines 222-259 with the number an item carries kept when it has one
NormalizeItemKeepsNumber(item, i) ==
    IF ~item.isdict THEN [item |-> item, error |-> "deve essere un oggetto"]
    ELSE LET a == [item EXCEPT !.progressiveNumber = IF @ = 0 THEN i + 1 ELSE @]
             b == [a EXCEPT !.description = IF @.t = "missing" THEN None ELSE @]
             c == [b EXCEPT !.quantity = IF @.t \in {"missing", "none"} THEN Num(0) ELSE @]
             d == [c EXCEPT !.unitPrice = IF @.t \in {"missing", "none"} THEN Num(0) ELSE @]
             e == [d EXCEPT !.unitOfMeasurement = IF @.t = "missing" THEN None ELSE @]
         IN IF a.description.t \in {"num", "other"}
            THEN [item |-> a, error |-> "description deve essere string o null"]
            ELSE IF b.quantity.t \in {"str", "other"}
            THEN [item |-> b, error |-> "quantity deve essere number"]
            ELSE IF c.unitPrice.t \in {"str", "other"}
            THEN [item |-> c, error |-> "unitPrice deve essere number"]
            ELSE IF d.unitOfMeasurement.t \in {"num", "other"}
            THEN [item |-> d, error |-> "unitOfMeasurement deve essere string o null"]
            ELSE [item |-> e, error |-> ""]

\* lines 222-259 for the item at 0-based position i: the item as the loop
\* body leaves it (it is changed in place up to the raise) and the message
\* of the ValueError raised, "" if none.  The referenceCode test of lines
\* 228-235 is inside a string literal and does not run.
NormalizeItem(item, i) ==
    IF ~item.isdict THEN [item |-> item, error |-> "deve essere un oggetto"]
    ELSE LET a == [item EXCEPT !.progressiveNumber = i + 1]
             b == [a EXCEPT !.description = IF @.t = "missing" THEN None ELSE @]
             c == [b EXCEPT !.quantity = IF @.t \in {"missing", "none"} THEN Num(0) ELSE @]
             d == [c EXCEPT !.unitPrice = IF @.t \in {"missing", "none"} THEN Num(0) ELSE @]
             e == [d EXCEPT !.unitOfMeasurement = IF @.t = "missing" THEN None ELSE @]
         IN IF a.description.t \in {"num", "other"}
            THEN [item |-> a, error |-> "description deve essere string o null"]
            ELSE IF b.quantity.t \in {"str", "other"}
            THEN [item |-> b, error |-> "quantity deve essere number"]
            ELSE IF c.unitPrice.t \in {"str", "other"}
            THEN [item |-> c, error |-> "unitPrice deve essere number"]
            ELSE IF d.unitOfMeasurement.t \in {"num", "other"}
            THEN [item |-> d, error |-> "unitOfMeasurement deve essere string o null"]
            ELSE [item |-> e, error |-> ""]

\* the loop of line 222 over the first n items, stopped by the first raise
RECURSIVE ValidateScan(_, _)
ValidateScan(items, n) ==
    IF n = 0 THEN [items |-> items, error |-> ""]
    ELSE LET st == ValidateScan(items, n - 1)
             r == NormalizeItem(st.items[n], n - 1)
         IN IF st.error # "" THEN st
            ELSE [items |-> [st.items EXCEPT ![n] = r.item], error |-> r.error]

\* validate_and_normalize_workitems with the empty list let through
ValidateAcceptsEmpty(w) ==
    IF ~w.islist THEN [items |-> w.items, error |-> "workItems deve essere un array"]
    ELSE ValidateScan(w.items, Len(w.items))

\* validate_and_normalize_workitems(work_items): the list as it is left and
\* the message of the ValueError, "" when the function returns normally
validate_and_normalize_workitems(w) ==
    IF ~w.islist THEN [items |-> w.items, error |-> "workItems deve essere un array"]
    ELSE IF Len(w.items) = 0 THEN [items |-> w.items, error |-> "un array vuoto"]
    ELSE ValidateScan(w.items, Len(w.items))

\* item.get(key, 0) or 0 for a value that is a number, None or missing; an
\* empty string is falsy as well
OrZero(v) == IF v.t = "num" THEN v.n ELSE 0
\* a value the arithmetic of lines 278-283 raises TypeError on
NotANumber(v) == (v.t = "str" /\ v.s # "") \/ v.t = "other"

\* lines 278-281 with the percentage branch left out
ItemValuePlain(item) == 100 * OrZero(item.quantity) * OrZero(item.unitPrice)
\* lines 272-281: item_value, in hundredths (quantity / 100.0 is the only
\* division; quantities and prices are whole numbers here)
ItemValue(item) ==
    IF item.unitOfMeasurement = Str("%")
    THEN OrZero(item.unitPrice) * OrZero(item.quantity)
    ELSE 100 * OrZero(item.quantity) * OrZero(item.unitPrice)

\* lines 269-283: total after the first n items
RECURSIVE TotalScan(_, _)
TotalScan(items, n) ==
    IF n = 0 THEN 0 ELSE TotalScan(items, n - 1) + ItemValue(items[n])

\* calculate_total_amount(work_items) in hundredths; raised: an item that is
\* no dict or holds a value that is no number makes the arithmetic raise
calculate_total_amount(items) ==
    IF \E i \in 1..Len(items) :
          ~items[i].isdict \/ NotANumber(items[i].quantity) \/ NotANumber(items[i].unitPrice)
    THEN [total |-> 0, raised |-> TRUE]
    ELSE [total |-> TotalScan(items, Len(items)), raised |-> FALSE]

(***************************************************************************)
(* main of extractMetricComputation.py: the request and its checks          *)
(* A request is [user_email, s3_url, doc_id, title, doc_type]: whether the *)
(* header and the parameters are there, the document id as its characters  *)
(* (<<>>: absent), the type as given ("": absent).                          *)
(***************************************************************************)
HexChars == AsciiDigits \cup {"a", "b", "c", "d", "e", "f", "A", "B", "C", "D", "E", "F"}
\* line 761: all([user_email, s3_url, doc_id, title, doc_type])
RequiredPresent(req) ==
    req.user_email /\ req.s3_url /\ req.doc_id # <<>> /\ req.title /\ req.doc_type # ""

\* validate_objectid testing the length only
ValidateObjectIdByLength(id) == Len(id) = 24
\* validate_objectid(id_str): ObjectId(id_str) accepts 24 hexadecimal digits
validate_objectid(id) ==
    Len(id) = 24 /\ \A i \in 1..Len(id) : id[i] \in HexChars

\* lines 470-477: the collection of the type, none for another type
KnownType(t) == t \in {"privateTender", "metricComputation"}

\* line 923: if user_email and title and doc_type
ErrorEmailDue(req) == req.user_email /\ req.title /\ req.doc_type # ""

\* line 798: quality_ratio < 0.95, the ratio in hundredths
QualityFloor == 95
\* the ratio read as the floor itself: no result is ever under it
QualityRatioPasses(r) == QualityFloor
\* line 793: if quality_result
Truthy(r) == r.kind \notin {"none", "empty"}
\* line 797: quality_result.get('quality_ratio', 0)
QualityRatio(r) == IF r.kind = "data" THEN r.quality_ratio ELSE 0

\* download_s3_file (lines 159-201): the path returned and the temporary file
DownloadOutcomes ==
    {[path |-> TRUE, file |-> "present"], [path |-> FALSE, file |-> "none"],
     [path |-> FALSE, file |-> "orphan"]}

\* the finally block without the removal
KeepTempFile(f, removed) == f
\* lines 968-975: if temp_file_path and os.path.exists(temp_file_path):
\* os.remove(temp_file_path); when os.remove raises the file stays
RemoveTempFile(f, removed) == IF f = "present" /\ removed THEN "removed" ELSE f
\* lines 977-983: if mongo_client: mongo_client.close(); when close raises
\* the client stays open
CloseClient(c, closed) == IF c = "open" /\ closed THEN "closed" ELSE c
\* lines 972-975 and 980-983: what the finally block logs
CleanupLog(f, removed, c, closed) ==
    (IF f # "present" THEN <<>>
     ELSE IF removed THEN <<"Cleaned up temporary file">>
     ELSE <<"Failed to clean up temporary file">>)
    \o (IF c # "open" THEN <<>>
        ELSE IF closed THEN <<"MongoDB connection closed">>
        ELSE <<"Failed to close MongoDB connection">>)
\* lines 967-983: the finally block; os.remove and close succeed or raise
Finally ==
    \E removed, closed \in BOOLEAN :
        /\ temp_file' = RemoveTempFile(temp_file, removed)
        /\ mongo_client' = CloseClient(mongo_client, closed)
        /\ cleanup_log' = CleanupLog(temp_file, removed, mongo_client, closed)

(***************************************************************************)
(* Values of the variables of the parts a specification does not run       *)
(***************************************************************************)
TabIdle ==
    /\ lines = <<>> /\ line_num = 0 /\ chunks = <<>> /\ current_chunk = <<>>
    /\ in_data_section = FALSE /\ tpc = "idle"
NormIdle == raw_line = <<>> /\ normalized_line = <<>> /\ npc = "idle"
EngIdle ==
    /\ plan = <<>> /\ pdf = <<>> /\ full_document_text = <<>>
    /\ tariffa_found = FALSE /\ designazione_found = FALSE
    /\ primus_chunks = <<>> /\ fraction_chunks = <<>> /\ best_chunks = <<>>
    /\ tried = <<>> /\ result = <<>> /\ raised = FALSE /\ page_errors = {}
    /\ pc = "idle"
CropIdle ==
    /\ doc = <<>> /\ damaged = {} /\ pno = 0 /\ saved_files = <<>> /\ crops = <<>>
    /\ work_item_files = <<>> /\ spc = "idle"
AssocIdle ==
    /\ outcomes = <<>> /\ pending = {} /\ extracted_items = <<>> /\ work_items = <<>>
    /\ n_crops = 0 /\ linked = FALSE /\ apc = "idle"
ItemIdle ==
    /\ item_input = <<>> /\ item_list = <<>> /\ val_error = ""
    /\ item_total = 0 /\ total_raised = FALSE /\ ipc = "idle"
JobIdle ==
    /\ request = <<>> /\ quality_result = <<>> /\ extraction_result = <<>>
    /\ job_items = <<>>
    /\ job_error = "" /\ total_amount = 0 /\ db_items = <<>> /\ n_files = 0
    /\ steps = <<>> /\ emails = <<>> /\ exit_code = 0
    /\ temp_file = "none" /\ mongo_client = "none" /\ cleanup_log = <<>> /\ jpc = "idle"
ParIdle ==
    /\ par_pdf = <<>> /\ par_pno = <<>> /\ par_text = <<>> /\ par_result = <<>>
    /\ par_pc = <<>>
UpdIdle ==
    /\ upd_type = "" /\ upd_id = <<>> /\ upd_items = <<>> /\ upd_total = 0
    /\ mongo_fails = FALSE /\ store = <<>> /\ upd_result = "idle" /\ upc = "idle"
ProcIdle ==
    /\ pdf_file = "" /\ child = <<>> /\ child_state = "none" /\ readers = <<>>
    /\ output_queue = <<>> /\ streams_ended = <<>> /\ over_time = FALSE
    /\ overran = FALSE /\ killed = FALSE /\ proc_result = "idle" /\ ppc = "idle"
StrIdle == stream = <<>> /\ all_stdout = <<>> /\ all_stderr = <<>>

\* all sequences over S of length at most n
SeqsUpTo(S, n) == UNION {[1..k -> S] : k \in 0..n}

(***************************************************************************)
(* The Tabular strategy run line by line on its own                         *)
(***************************************************************************)
\* longest text given to the Tabular strategy
MaxTabLines == 3

TabHeader == <<"D","E","S","I","G","N","A","Z","I","O","N","E"," ","D","E","I"," ","L","A","V","O","R","I">>
TabItemLong == <<"1"," ","S","c","a","v","o"," ","d","i"," ","s","t","e","r","r","o"," ","i","n"," ","p","o","z","z","o"," ","a","p","e","r","t","o">>
TabItemShort == <<"2"," ","N","o","l","o">>
TabRefCode == <<"0","0","5">>
TabContinuation == <<"e","s","e","g","u","i","t","o"," ","a"," ","m","a","n","o"," ","f","i","n","o"," ","a"," ","2"," ","m">>
TabFooter == <<"P","a","g","."," ","2">>
TabRejected == <<"3"," ","L","i","n","e","a"," ","e","l","e","t","t","r","i","c","a">>
TabRefHeader == <<"0","0","5"," ","L","A","V","O","R","I"," ","A"," ","C","O","R","P","O">>
TabVocab == {TabHeader, TabItemLong, TabItemShort, TabRefCode, TabContinuation,
             TabFooter, TabRejected, TabRefHeader, <<>>}
TabDocs == SeqsUpTo(TabVocab, MaxTabLines)
\* texts on the three forms of an item start
TabFraction == <<"4","/","4"," ","S","c","a","v","o"," ","a"," ","s","e","z","i","o","n","e"," ","o","b","b","l","i","g","a","t","a"," ","c","o","n"," ","m","e","z","z","i">>
TabFractionLinea == <<"5","/","3"," ","L","i","n","e","a"," ","e","l","e","t","t","r","i","c","a">>
TabSpecial == <<"1","3"," ","c","e","m","e","n","t","o"," ","a","r","m","a","t","o">>
StartVocab == {TabHeader, TabItemLong, TabRejected, TabFraction, TabFractionLinea,
               TabSpecial, TabContinuation}
StartDocs == SeqsUpTo(StartVocab, MaxTabLines)

TabInit ==
    /\ lines \in TabDocs \cup StartDocs
    /\ line_num = 1
    /\ chunks = <<>>
    /\ current_chunk = <<>>
    /\ in_data_section = FALSE
    /\ tpc = "scan"
    /\ NormIdle /\ EngIdle /\ CropIdle /\ AssocIdle /\ ItemIdle /\ JobIdle /\ ParIdle /\ UpdIdle /\ ProcIdle /\ StrIdle

\* one turn of the for loop of extract_primus_format_chunks
PrimusLine ==
    /\ tpc = "scan"
    /\ line_num <= Len(lines)
    /\ LET st == PrimusLineStep([chunks |-> chunks, current_chunk |-> current_chunk,
                                 in_data_section |-> in_data_section], lines, line_num)
       IN /\ chunks' = st.chunks
          /\ current_chunk' = st.current_chunk
          /\ in_data_section' = st.in_data_section
    /\ line_num' = line_num + 1
    /\ UNCHANGED <<lines, tpc, normVars, engVars, cropVars, assocVars, itemVars, jobVars, parVars, updVars, procVars, strVars>>

\* after the loop: the last chunk is saved and the chunks are returned
PrimusReturn ==
    /\ tpc = "scan"
    /\ line_num > Len(lines)
    /\ chunks' = SealOpenChunk(lines, chunks, current_chunk)
    /\ tpc' = "done"
    /\ UNCHANGED <<lines, line_num, current_chunk, in_data_section,
                   normVars, engVars, cropVars, assocVars, itemVars, jobVars, parVars, updVars, procVars, strVars>>

TabNext == PrimusLine \/ PrimusReturn
SpecTabular == TabInit /\ [][TabNext]_vars

(***************************************************************************)
(* Claims on the Tabular strategy                                           *)
(***************************************************************************)
\* index of the first section-header line of `lines`, 0 if there is none
FirstHeader ==
    LET hs == {i \in 1..Len(lines) : IsHeaderLine(Strip(lines[i]))}
    IN IF hs = {} THEN 0 ELSE MinOf(hs)
\* the lines the code discards as noise: empty, header, carry-forward / footer
IsNoiseLine(i) ==
    LET s == Strip(lines[i]) IN s = <<>> \/ IsHeaderLine(s) \/ IsBoilerplate(s)
\* line i starts a chunk: it follows the header and is an accepted item start
StartsChunkAt(i) ==
    /\ FirstHeader > 0 /\ i > FirstHeader
    /\ ~IsNoiseLine(i)
    /\ IsItemStart(Strip(lines[i]))
\* number of places of the result at which line i stands
Occurrences(i) ==
    Cardinality({p \in (1..Len(chunks)) \X (1..Len(lines)) :
                    p[2] <= Len(chunks[p[1]]) /\ chunks[p[1]][p[2]] = i})
\* the last item start at or before line i, 0 if none
GroupStart(i) ==
    LET ss == {j \in 1..i : StartsChunkAt(j)} IN IF ss = {} THEN 0 ELSE MaxOf(ss)
\* the lines that go to the chunk opened at start g
GroupLines(g) ==
    {k \in g..Len(lines) : ~IsNoiseLine(k) /\ GroupStart(k) = g}
RECURSIVE SumStrippedLen(_)
SumStrippedLen(S) ==
    IF S = {} THEN 0
    ELSE LET k == MinOf(S) IN Len(Strip(lines[k])) + SumStrippedLen(S \ {k})
\* len of the joined text of the chunk opened at start g
GroupLen(g) == SumStrippedLen(GroupLines(g)) + Cardinality(GroupLines(g)) - 1

\* C4 as claimed: every line after the section header is in exactly one
\* chunk or is discarded noise (empty, header, boilerplate); nothing else is
\* lost.
C4_CoverageAsClaimed ==
    tpc = "done" =>
        \A i \in 1..Len(lines) :
            (FirstHeader > 0 /\ i > FirstHeader) =>
                (IsNoiseLine(i) \/ Occurrences(i) = 1)

\* C4 amended: after the section header no line stands at two places of the
\* result, noise lines stand nowhere, and a line that is not noise is in a
\* chunk exactly when an item start precedes it (or is it) and the joined
\* text of the chunk it goes to is longer than the floor of 30 characters;
\* the lines met before the first item start and the lines of an
\* under-floor chunk are dropped.
C4_Coverage ==
    tpc = "done" =>
        \A i \in 1..Len(lines) :
            /\ Occurrences(i) <= 1
            /\ (Occurrences(i) = 1) <=>
                    /\ FirstHeader > 0 /\ i > FirstHeader
                    /\ ~IsNoiseLine(i)
                    /\ GroupStart(i) > 0
                    /\ GroupLen(GroupStart(i)) > PrimusMinLen
\* a finished run in which one chunk was kept and an under-floor chunk was
\* dropped
C4_Witness ==
    /\ tpc = "done"
    /\ Len(chunks) >= 1
    /\ \E i \in 1..Len(lines) :
          /\ GroupStart(i) > 0 /\ ~IsNoiseLine(i)
          /\ GroupLen(GroupStart(i)) <= PrimusMinLen

\* the line the loop is about to read is a 3-digit reference-code ending met
\* in the data section
AtRefCodeLine ==
    /\ tpc = "scan" /\ line_num <= Len(lines) /\ in_data_section
    /\ is_reference_code_ending(Strip(lines[line_num]))
\* lines with line i replaced by an ordinary continuation of the same length
WithOrdinaryLine(i) ==
    [lines EXCEPT ![i] = [k \in 1..Len(Strip(lines[i])) |-> "x"]]
SameCountAsContinuation(i) ==
    Len(PrimusChunkIdx(WithOrdinaryLine(i))) = Len(chunks)

\* C5 as claimed: in the data section a line beginning with a 3-digit token
\* followed by whitespace or end of line starts no chunk, seals none, and is
\* appended to the open chunk as its last line.
C5_RefCodeAsClaimed ==
    [][AtRefCodeLine =>
          /\ chunks' = chunks
          /\ current_chunk' = IF current_chunk = <<>> THEN <<>>
                              ELSE Append(current_chunk, line_num)]_vars

\* C5 amended: the same for every such line that is not itself a section
\* header line (one holding DESIGNAZIONE DEI LAVORI or LAVORI A CORPO, which
\* is skipped before the 3-digit test); and the number of chunks returned is
\* the one returned with the line replaced by an ordinary continuation line
\* of the same length.
C5_RefCode ==
    /\ [][(AtRefCodeLine /\ ~IsHeaderLine(Strip(lines[line_num]))) =>
             /\ chunks' = chunks
             /\ current_chunk' = IF current_chunk = <<>> THEN <<>>
                                 ELSE Append(current_chunk, line_num)]_vars
    /\ [](tpc = "done" =>
             \A i \in 1..Len(lines) :
                (is_reference_code_ending(Strip(lines[i]))
                   /\ ~IsHeaderLine(Strip(lines[i]))) => SameCountAsContinuation(i))
\* a 3-digit line has just been appended to an open chunk
C5_Witness ==
    /\ tpc = "scan" /\ line_num >= 3
    /\ is_reference_code_ending(Strip(lines[line_num - 1]))
    /\ Len(current_chunk) >= 2
    /\ current_chunk[Len(current_chunk)] = line_num - 1

(***************************************************************************)
(* The documents given to the engine                                        *)
(***************************************************************************)
\* longest free document, in entries (lines, page breaks, failing pages)
MaxDocLines == 3
\* most items of an itemised document
MaxItems == 2

RawTotal == <<"S","O","M","M","A","N","O"," ","6",",","0","0"," ","m","3">>
RawFraction == <<"1","0","0","/","3","5"," ","4","0","3","3"," ","R","i","m","o","z","i","o","n","e"," ","d","i"," ","i","n","t","o","n","a","c","o"," ","a","m","m","a","l","o","r","a","t","o"," ","s","u"," ","p","a","r","e","t","i">>
RawTabFraction == <<"1","0","/","3","5"," ","4","0","3","3"," ","R","i","m","o","z","i","o","n","e"," ","d","i"," ","i","n","t","o","n","a","c","o">>
RawFooter == <<"P","a","g","."," ","3">>
RawSpaced == <<" ","2"," ","/"," ","2"," "," ","F","o","n","d","a","z","i","o","n","e">>
RawPlain == <<"e","s","e","g","u","i","t","o"," ","a"," ","m","a","n","o"," ","f","i","n","o"," ","a"," ","2"," ","m">>
RawCorpo == <<"L","A","V","O","R","I"," ","A"," ","C","O","R","P","O">>

\* an entry of a free document: a raw line, a page break, or the mark that
\* the extraction of the page it stands on raises
LineEntries ==
    {[t |-> "line", s |-> l] :
        l \in {TARIFFA, DESIGNAZIONE, RawTotal, RawFooter, RawSpaced, RawPlain}}
DocEntries == LineEntries \cup {[t |-> "break", s |-> <<>>], [t |-> "bad", s |-> <<>>]}

\* the pages a sequence of entries describes
RECURSIVE PagesOf(_, _)
PagesOf(es, n) ==
    IF n = 0 THEN <<[ok |-> TRUE, text |-> <<>>]>>
    ELSE LET ps == PagesOf(es, n - 1)
             e == es[n]
         IN CASE e.t = "line" -> [ps EXCEPT ![Len(ps)].text = Append(@, e.s)]
              [] e.t = "bad" -> [ps EXCEPT ![Len(ps)].ok = FALSE]
              [] e.t = "break" -> Append(ps, [ok |-> TRUE, text |-> <<>>])

\* block repeated reps times
Repeat(block, reps) ==
    [i \in 1..(Len(block) * reps) |-> block[((i - 1) % Len(block)) + 1]]

FreePlans == [kind : {"free"}, entries : SeqsUpTo(DocEntries, MaxDocLines)]
\* documents of one repeated block, short ones and long ones around the
\* thresholds of the specialized strategies
ThresholdPlans ==
    [kind : {"bulk"},
     head : {<<>>, <<TARIFFA, DESIGNAZIONE>>, <<RawCorpo>>},
     block : {<<RawTabFraction, RawTotal>>, <<RawFraction>>},
     reps : {1, 2, PrimusThreshold, PrimusThreshold + 1},
     tail : {<<>>}]
\* short-lined documents around the line minimum of the delimiter fallback
BufferPlans ==
    [kind : {"bulk"},
     head : {<<<<"1"," ","A">>>>, <<<<"x">>>>},
     block : {<<<<"b">>>>},
     reps : {FallbackMinLines - 2, FallbackMinLines - 1, FallbackMinLines},
     tail : {<<<<"S","O","M","M","A","N","O">>>>}]

\* an item: its start line, its other lines, its totals line
ItemStarts == {<<"1"," ","S","c","a","v","o"," ","d","i"," ","s","t","e","r","r","o"," ","i","n"," ","p","o","z","z","o">>, <<"2"," ","F","o","n","d","a","z","i","o","n","e"," ","i","n"," ","c","e","m","e","n","t","o"," ","a","r","m","a","t","o">>,
               <<"1","0","0"," ","D","e","m","o","l","i","z","i","o","n","e"," ","d","i"," ","m","u","r","a","t","u","r","a">>}
ItemBodies == {<<>>, <<RawPlain>>, <<<<"1","2"," ","A","l","p","h","a">>>>, <<<<"T","A","R","I","F","F","A"," ","D","E","S","I","G","N","A","Z","I","O","N","E"," ","D","E","I"," ","L","A","V","O","R","I">>>>}
Items == [start : ItemStarts, body : ItemBodies, total : {RawTotal}]
ItemText(it) == <<it.start>> \o it.body \o <<it.total>>
ItemPlans == [kind : {"items"}, items : UNION {[1..k -> Items] : k \in 1..MaxItems}]
RECURSIVE ItemsText(_, _)
ItemsText(its, n) ==
    IF n = 0 THEN <<>> ELSE ItemsText(its, n - 1) \o ItemText(its[n])

\* documents given page by page: pages with an item, a page whose
\* extraction raises, a page with a label written with spaces around its
\* dash (and, outside the documents, a page without text)
MaxPages == 3
RawLabel == <<"p","a","r","z","i","a","l","e"," ","s","0","1"," ","-"," ","s","0","2">>
ItemPage1 == [ok |-> TRUE, text |-> <<<<"1"," ","S","c","a","v","o"," ","d","i"," ","s","t","e","r","r","o"," ","i","n"," ","p","o","z","z","o"," ","a","p","e","r","t","o"," ","a"," ","s","e","z","i","o","n","e"," ","o","b","b","l","i","g","a","t","a">>,
                                      RawPlain, RawTotal>>]
ItemPage2 == [ok |-> TRUE, text |-> <<<<"2"," ","F","o","n","d","a","z","i","o","n","e"," ","i","n"," ","c","e","m","e","n","t","o"," ","a","r","m","a","t","o"," ","p","e","r"," ","p","l","i","n","t","i"," ","e"," ","t","r","a","v","i">>,
                                      RawLabel, RawTotal>>]
FailingPage == [ok |-> FALSE, text |-> <<<<"3"," ","D","e","m","o","l","i","z","i","o","n","e"," ","d","i"," ","m","u","r","a","t","u","r","a"," ","d","i"," ","q","u","a","l","s","i","a","s","i"," ","g","e","n","e","r","e">>,
                                         RawTotal>>]
TextlessPage == [ok |-> TRUE, text |-> <<>>]
LabelPage == [ok |-> TRUE, text |-> <<RawLabel>>]
PageVocab == {ItemPage1, ItemPage2, FailingPage, LabelPage}
PagePlans == [kind : {"pages"}, pages : UNION {[1..k -> PageVocab] : k \in 1..MaxPages}]

UnreadablePlan == [kind |-> "unreadable"]

PdfOf(p) ==
    CASE p.kind = "free" ->
            [openable |-> TRUE, pages |-> PagesOf(p.entries, Len(p.entries))]
      [] p.kind = "bulk" ->
            [openable |-> TRUE,
             pages |-> <<[ok |-> TRUE,
                          text |-> p.head \o Repeat(p.block, p.reps) \o p.tail]>>]
      [] p.kind = "items" ->
            [openable |-> TRUE,
             pages |-> <<[ok |-> TRUE, text |-> ItemsText(p.items, Len(p.items))]>>]
      [] p.kind = "pages" -> [openable |-> TRUE, pages |-> p.pages]
      [] p.kind = "unreadable" -> [openable |-> FALSE, pages |-> <<>>]

EngInit ==
    /\ \/ plan \in FreePlans
       \/ plan \in ThresholdPlans
       \/ plan \in BufferPlans
       \/ plan \in ItemPlans
       \/ plan \in PagePlans
       \/ plan = UnreadablePlan
    /\ pdf = PdfOf(plan)
    /\ full_document_text = << <<>> >>
    /\ tariffa_found = FALSE /\ designazione_found = FALSE
    /\ primus_chunks = <<>> /\ fraction_chunks = <<>> /\ best_chunks = <<>>
    /\ tried = <<>> /\ result = <<>> /\ raised = FALSE /\ page_errors = {}
    /\ pc = "start"
    /\ TabIdle /\ NormIdle /\ CropIdle /\ AssocIdle /\ ItemIdle /\ JobIdle /\ ParIdle /\ UpdIdle /\ ProcIdle /\ StrIdle

SpecEngine == EngInit /\ [][EngNext]_vars

(***************************************************************************)
(* Claims on the engine                                                     *)
(***************************************************************************)
\* the engine has returned from a document it could open
Returned == pc = "done" /\ pdf.openable
HasBothMarkers(t) == TextContains(t, TARIFFA) /\ TextContains(t, DESIGNAZIONE)
\* what the strategies after the Tabular one give, in their order
FirstAccepted(f, c, d) ==
    IF Len(f) > FractionThreshold THEN f ELSE IF c # <<>> THEN c ELSE d
TriedAfterPrimus(f, c) ==
    IF Len(f) > FractionThreshold THEN <<"primus", "fraction">>
    ELSE IF c # <<>> THEN <<"primus", "fraction", "cascade">>
    ELSE <<"primus", "fraction", "cascade", "fallback">>

\* C1 as stated: on every text on which the Tabular strategy yields more than
\* 200 chunks the engine returns exactly the Tabular chunk list.
C1_PrecedenceAsClaimed ==
    Returned =>
        LET p == extract_primus_format_chunks(full_document_text)
        IN Len(p) > PrimusThreshold => result = p

\* C1 amended: on every text that holds both layout markers (TARIFFA and
\* DESIGNAZIONE DEI LAVORI) and on which the Tabular strategy yields more
\* than 200 chunks, the engine returns exactly the Tabular chunk list and
\* runs no other strategy.
C1_Precedence ==
    (Returned /\ HasBothMarkers(full_document_text)) =>
        LET p == extract_primus_format_chunks(full_document_text)
        IN Len(p) > PrimusThreshold => (result = p /\ tried = <<"primus">>)

\* a document with both markers whose Tabular list of more than 200 chunks
\* was returned
C1_Witness ==
    /\ Returned /\ tried = <<"primus">>
    /\ Len(result) > PrimusThreshold
    /\ HasBothMarkers(full_document_text)

\* C2 as stated: on every text on which the Tabular strategy yields fewer
\* chunks than its threshold the engine returns the result of the first of
\* fraction-numbered, generic cascade, delimiter grouping that meets its
\* acceptance threshold.
C2_FallbackAsClaimed ==
    Returned =>
        LET t == full_document_text
        IN Len(extract_primus_format_chunks(t)) < PrimusThreshold =>
              result = FirstAccepted(extract_fraction_format_chunks(t),
                                     CascadeChunks(t), FallbackChunks(t))

\* C2 amended: on every text on which the Tabular strategy yields fewer
\* chunks than its threshold: if the text holds both layout markers the
\* engine runs Tabular, fraction-numbered, generic cascade, delimiter
\* grouping in that order, stops at the first that meets its threshold and
\* returns its result; if a marker is missing the engine runs neither the
\* Tabular nor the fraction-numbered strategy: it runs the generic cascade
\* and, only if that yields nothing, the delimiter grouping.
C2_Fallback ==
    Returned =>
        LET t == full_document_text
            f == extract_fraction_format_chunks(t)
            c == CascadeChunks(t)
            d == FallbackChunks(t)
        IN Len(extract_primus_format_chunks(t)) < PrimusThreshold =>
              IF HasBothMarkers(t)
              THEN result = FirstAccepted(f, c, d) /\ tried = TriedAfterPrimus(f, c)
              ELSE /\ result = (IF c # <<>> THEN c ELSE d)
                   /\ tried = (IF c # <<>> THEN <<"cascade">> ELSE <<"cascade", "fallback">>)

\* the Tabular strategy fell short and the fraction-numbered result was returned
C2_Witness ==
    /\ Returned /\ tried = <<"primus", "fraction">>
    /\ Len(primus_chunks) < PrimusThreshold
    /\ Len(result) > FractionThreshold
    /\ result = fraction_chunks

\* no header token, no item-start pattern, no totals keyword in the text
NoMarker(t) ==
    /\ \A i \in 1..Len(t) :
          LET s == Strip(t[i])
          IN /\ ~Contains(s, TARIFFA) /\ ~IsHeaderLine(s) /\ ~Contains(s, SOMMANO)
             /\ ~main_item_match(s) /\ ~fraction_match(s) /\ ~special_case_match(s)
             /\ ~fraction_start_match(s)
             /\ ~LeadingNumber(<<s>>)
    /\ \A j \in 2..Len(t) : \A k \in 1..NumPatterns : ~PatternAt(k, t, j)

\* C3: the engine never propagates an exception, whatever the document; and
\* on a text without any recognizable marker none of the four strategies
\* yields a chunk and the engine returns the empty list.
C3_EmptyNotError ==
    /\ ~raised
    /\ (Returned /\ NoMarker(full_document_text)) =>
          /\ result = <<>>
          /\ extract_primus_format_chunks(full_document_text) = <<>>
          /\ extract_fraction_format_chunks(full_document_text) = <<>>
          /\ CascadeChunks(full_document_text) = <<>>
          /\ FallbackChunks(full_document_text) = <<>>
    /\ (pc = "done" /\ ~pdf.openable) => result = <<>>

\* a readable document with text but no marker, returned empty after the
\* cascade and the fallback
C3_Witness ==
    /\ Returned /\ NoMarker(full_document_text)
    /\ \E i \in 1..Len(full_document_text) : full_document_text[i] # <<>>
    /\ "fallback" \in {tried[i] : i \in 1..Len(tried)}
    /\ result = <<>>

\* the line of the text on which item i of an itemised document starts
RECURSIVE ItemStartLine(_, _)
ItemStartLine(its, i) ==
    IF i = 1 THEN 1 ELSE ItemStartLine(its, i - 1) + Len(ItemText(its[i - 1]))
ItemStartLines(its) == {ItemStartLine(its, i) : i \in 1..Len(its)}
\* chunk i is item i, from its start line to its SOMMANO line, for all k items
OneChunkPerItem(its, cs) ==
    /\ Len(cs) = Len(its)
    /\ \A i \in 1..Len(its) : cs[i] = ItemText(its[i])

\* C6 as stated: a text of k consecutive items, each from a line
\* '<n> <Capitalised description>' to its own SOMMANO line, is returned as
\* exactly k chunks in document order, chunk i holding item i and nothing of
\* another item.
C6_ItemPerChunkAsClaimed ==
    (Returned /\ plan.kind = "items") => OneChunkPerItem(plan.items, result)

\* the items are cut apart by the cascade's number pattern and by nothing else
CascadeRegular(its, t) ==
    /\ \A i \in 1..Len(its) : JoinLen(ItemText(its[i])) > CascadeMinLen
    /\ \A i \in 2..Len(its) : NumberTextPattern(t, ItemStartLine(its, i))
    /\ \A j \in 2..Len(t) : j \notin ItemStartLines(its) =>
          \A k \in 1..NumPatterns : ~PatternAt(k, t, j)

\* C6 amended: a text of at most 200 lines made of k consecutive items, each
\* from a line '<n> <Capitalised description>' to its own SOMMANO line, in
\* which every item is more than 50 characters long, the number of every
\* item after the first is not exactly three digits long, and no line other
\* than the k start lines begins as one of the cascade's item-start patterns
\* (number and capital letter, fraction and letter, number and tariff code),
\* is returned as exactly k chunks in document order, chunk i holding item i
\* from its start line to its SOMMANO line and nothing of another item.
C6_ItemPerChunk ==
    (/\ Returned /\ plan.kind = "items"
     /\ Len(full_document_text) <= PrimusThreshold
     /\ CascadeRegular(plan.items, full_document_text))
        => OneChunkPerItem(plan.items, result)

\* two regular items returned as two chunks
C6_Witness ==
    /\ Returned /\ plan.kind = "items"
    /\ Len(plan.items) = 2
    /\ CascadeRegular(plan.items, full_document_text)
    /\ OneChunkPerItem(plan.items, result)

\* the pages with the ones whose extraction raises taken out
ReadablePages(pages) == SelectSeq(pages, LAMBDA p : p.ok)
\* the pages with the ones whose extraction raises holding no text
BlankedPages(pages) ==
    [i \in 1..Len(pages) |-> IF pages[i].ok THEN pages[i] ELSE TextlessPage]

\* C12: a page whose text extraction fails is skipped and logged and the
\* other pages are read on: the text handed to the strategies, and the chunk
\* list returned, are those of the document with the failed pages removed,
\* and those of the document in which the failed pages hold no text.
C12_PageTolerance ==
    (pc # "start" /\ pdf.openable /\ \E i \in 1..Len(pdf.pages) : ~pdf.pages[i].ok) =>
        LET kept == ReadablePages(pdf.pages)
            blank == BlankedPages(pdf.pages)
        IN /\ ~raised
           /\ page_errors = {i \in 1..Len(pdf.pages) : ~pdf.pages[i].ok}
           /\ full_document_text = ReadPages(kept, Len(kept))
           /\ full_document_text = ReadPages(blank, Len(blank))
           /\ (pc = "done" => result = EngineOnText(ReadPages(kept, Len(kept))))

\* the second of three pages fails and the items of the first and the third
\* page are returned
C12_Witness ==
    /\ pc = "done" /\ pdf.openable /\ Len(pdf.pages) = 3
    /\ pdf.pages[1] = ItemPage1 /\ pdf.pages[2] = FailingPage /\ pdf.pages[3] = ItemPage2
    /\ page_errors = {2}
    /\ Len(result) = 2

\* the lines of the text handed to the strategies: the text ends with a
\* line break, its lines are the ones before it
TextLines(t) == SubSeq(t, 1, Len(t) - 1)

\* C14: every line of the document text handed to the segmentation
\* strategies is non-empty and is no recognized-noise line: is_junk_line is
\* false for it in the form in which it reaches segmentation.
C14_NoNoiseReachesSegmentation ==
    (pc # "start" /\ pdf.openable) =>
        \A i \in 1..Len(TextLines(full_document_text)) :
            /\ full_document_text[i] # <<>>
            /\ ~is_junk_line(full_document_text[i])

(***************************************************************************)
(* The splitter run on a document, page by page, then the numbering         *)
(***************************************************************************)
\* most keyword occurrences on a page of the one-page documents
MaxHits == 3
PageWidth == 100
PageHeight == 80
NarrowWidth == 16

PageRect(w) == [x0 |-> 0, y0 |-> 0, x1 |-> w, y1 |-> PageHeight]
Hit(x, top, bottom) == [x0 |-> x, y0 |-> top, x1 |-> x + 30, y1 |-> bottom]
\* keyword occurrences: near the page top, two on one line, a tall one, one
\* that starts below the tall one and ends above it, mid-page, near the bottom
HitSet == {Hit(10, 2, 6), Hit(10, 20, 24), Hit(50, 20, 24), Hit(10, 20, 32),
           Hit(10, 21, 25), Hit(10, 40, 44), Hit(10, 66, 78)}
\* the text blocks of a page hold its occurrences: the topmost block starts
\* at the topmost occurrence or, a heading, above it
HeadingTop == 1
BlockTops(hs) ==
    IF hs = <<>> THEN {<<HeadingTop>>}
    ELSE LET top == MinOf({hs[i].y0 : i \in 1..Len(hs)})
         IN {<<HeadingTop>>, <<top>>, <<top + 30, top>>}
BlankPage == [rect |-> PageRect(PageWidth), hits |-> <<>>, blocks |-> <<HeadingTop>>]
RowPage == [rect |-> PageRect(PageWidth), hits |-> <<Hit(10, 40, 44)>>, blocks |-> <<HeadingTop>>]

\* one-page documents over all placements of up to MaxHits occurrences
GeometryDocs ==
    UNION {{<<[rect |-> PageRect(PageWidth), hits |-> hs, blocks |-> bs]>> :
                bs \in BlockTops(hs)} : hs \in SeqsUpTo(HitSet, MaxHits)}
NarrowDocs ==
    {<<[rect |-> PageRect(NarrowWidth), hits |-> <<h>>, blocks |-> <<HeadingTop>>]>> : h \in HitSet}
\* long documents, with an occurrence on some of the marked pages only
PageCounts == {2, 11, 100}
MarkedPages == {1, 2, 10, 11, 100}
LongDocs ==
    UNION {{[p \in 1..n |-> IF p \in H THEN RowPage ELSE BlankPage] :
                H \in SUBSET (MarkedPages \cap 1..n)} : n \in PageCounts}

\* short documents some pages of which cannot be searched or rendered
MaxCropPages == 3
TwoRowPage == [rect |-> PageRect(PageWidth), hits |-> <<Hit(10, 20, 24), Hit(10, 40, 44)>>,
               blocks |-> <<HeadingTop>>]
ShortDocs == UNION {[1..n -> {BlankPage, RowPage, TwoRowPage}] : n \in 1..MaxCropPages}

CropInit ==
    /\ \/ doc \in GeometryDocs /\ damaged = {}
       \/ doc \in NarrowDocs /\ damaged = {}
       \/ doc \in LongDocs /\ damaged = {}
       \/ doc \in ShortDocs /\ damaged \in SUBSET (1..Len(doc))
    /\ pno = 0
    /\ saved_files = <<>> /\ crops = <<>> /\ work_item_files = <<>>
    /\ spc = "crop"
    /\ TabIdle /\ NormIdle /\ EngIdle /\ AssocIdle /\ ItemIdle /\ JobIdle /\ ParIdle /\ UpdIdle /\ ProcIdle /\ StrIdle

\* SkipPage losing the crops saved so far
SkipPageDropsCrops ==
    /\ spc = "crop" /\ pno < Len(doc)
    /\ (pno + 1) \notin damaged
    /\ doc[pno + 1].hits = <<>>
    /\ pno' = pno + 1
    /\ saved_files' = <<>> /\ crops' = <<>>
    /\ UNCHANGED <<doc, damaged, work_item_files, spc>>
    /\ UNCHANGED <<tabVars, normVars, engVars, assocVars, itemVars, jobVars, parVars, updVars, procVars, strVars>>
\* lines 66-69: a page without the keyword is skipped
SkipPage ==
    /\ spc = "crop" /\ pno < Len(doc)
    /\ (pno + 1) \notin damaged
    /\ doc[pno + 1].hits = <<>>
    /\ pno' = pno + 1
    /\ UNCHANGED <<doc, damaged, saved_files, crops, work_item_files, spc>>
    /\ UNCHANGED <<tabVars, normVars, engVars, assocVars, itemVars, jobVars, parVars, updVars, procVars, strVars>>

\* lines 71-101: the crops of one page are saved
CropPage ==
    /\ spc = "crop" /\ pno < Len(doc)
    /\ (pno + 1) \notin damaged
    /\ doc[pno + 1].hits # <<>>
    /\ LET new == PageCrops(doc[pno + 1], pno)
       IN /\ crops' = crops \o new
          /\ saved_files' = saved_files \o [i \in 1..Len(new) |-> new[i].fname]
    /\ pno' = pno + 1
    /\ UNCHANGED <<doc, damaged, work_item_files, spc>>
    /\ UNCHANGED <<tabVars, normVars, engVars, assocVars, itemVars, jobVars, parVars, updVars, procVars, strVars>>

\* split_pdf_by_sommano after the splitter has returned: ordinal i goes to
\* the i-th file of the sorted directory listing
NumberCrops ==
    /\ spc = "crop" /\ pno = Len(doc)
    /\ work_item_files' = NumberedFiles(saved_files)
    /\ spc' = "done"
    /\ UNCHANGED <<doc, damaged, pno, saved_files, crops>>
    /\ UNCHANGED <<tabVars, normVars, engVars, assocVars, itemVars, jobVars, parVars, updVars, procVars, strVars>>

\* lines 64-96: page.search_for or page.get_pixmap raises on the page; no
\* handler stands between the page loop and line 613 of
\* extractMetricComputation.py, where split_pdf_by_sommano returns {}
PageFails ==
    /\ spc = "crop" /\ pno < Len(doc)
    /\ (pno + 1) \in damaged
    /\ work_item_files' = <<>>
    /\ spc' = "failed"
    /\ UNCHANGED <<doc, damaged, pno, saved_files, crops>>
    /\ UNCHANGED <<tabVars, normVars, engVars, assocVars, itemVars, jobVars, parVars, updVars, procVars, strVars>>

CropNext == SkipPage \/ CropPage \/ PageFails \/ NumberCrops
SpecCrop == CropInit /\ [][CropNext]_vars

(***************************************************************************)
(* Claims on the splitter                                                   *)
(***************************************************************************)
\* the crop saved under a file name
CropOf(name) == CHOOSE c \in {crops[i] : i \in 1..Len(crops)} : c.fname = name
\* (page, rowIndexOnPage) of a strictly before that of b
PageRowLess(a, b) == a.page < b.page \/ (a.page = b.page /\ a.row < b.row)

\* C8: the ordinals of the crops of a document are 1..N without gaps, and a
\* crop with a smaller ordinal has a strictly smaller (page, row) pair.
C8_OrdinalOrder ==
    spc = "done" =>
        /\ DOMAIN work_item_files = 1..Len(crops)
        /\ \A a, b \in 1..Len(work_item_files) :
              a < b => PageRowLess(CropOf(work_item_files[a]), CropOf(work_item_files[b]))

\* the crops saved for page p (1-based), in emission order
CropsOfPage(p) == SelectSeq(crops, LAMBDA c : c.page = p)
\* how far two crops overlap vertically (not positive: they do not)
Overlap(a, b) ==
    (IF a.rect.y1 < b.rect.y1 THEN a.rect.y1 ELSE b.rect.y1)
    - (IF a.rect.y0 > b.rect.y0 THEN a.rect.y0 ELSE b.rect.y0)
\* one crop per occurrence, tops in order, overlap within the padding
OrderedCrops(page, cs) ==
    /\ Len(cs) = Len(page.hits)
    /\ \A i \in 1..(Len(cs) - 1) : cs[i].rect.y0 <= cs[i + 1].rect.y0
    /\ \A i, j \in 1..Len(cs) :
          i # j => Overlap(cs[i], cs[j]) <= extend_bottom + include_keyword_padding

\* C9 as stated: a page with N occurrences gives N crops with non-decreasing
\* top edges, no two of them overlapping by more than extend_bottom +
\* include_keyword_padding, for any positions and heights of the occurrences.
C9_CropsAsClaimed ==
    \A p \in 1..pno : OrderedCrops(doc[p], CropsOfPage(p))

\* the occurrences lie in a page wide enough for a crop, end at least
\* MinCropSize + NextRowGap above its bottom edge, their bottom edges do not
\* decrease in (y0, x0) order
RegularPage(page) ==
    LET hits == SortHits(page.hits, Len(page.hits))
    IN /\ RectWidth(page.rect) >= left_margin + right_margin + MinCropSize
       /\ \A i \in 1..Len(hits) :
             /\ page.rect.y0 <= hits[i].y0 /\ hits[i].y0 <= hits[i].y1
             /\ hits[i].y1 + MinCropSize + NextRowGap <= page.rect.y1
       /\ \A i \in 1..(Len(hits) - 1) : hits[i].y1 <= hits[i + 1].y1

\* C9 amended: a page at least 18 points wide with N occurrences that lie
\* inside the page, end at least 8 points above its bottom edge and have
\* non-decreasing bottom edges in (y0, x0) order gives N crops with
\* non-decreasing top edges, no two of them overlapping by more than
\* extend_bottom + include_keyword_padding.
C9_Crops ==
    \A p \in 1..pno : RegularPage(doc[p]) => OrderedCrops(doc[p], CropsOfPage(p))

\* a regular page with three occurrences on three lines, cropped three times
C9_Witness ==
    /\ pno = 1 /\ Len(doc[1].hits) = 3 /\ RegularPage(doc[1])
    /\ Len(crops) = 3
    /\ crops[1].rect.y0 < crops[2].rect.y0 /\ crops[2].rect.y0 < crops[3].rect.y0

\* the names of the files the pages that can be read give
CropNamesOf(p) ==
    LET cs == PageCrops(doc[p], p - 1) IN {cs[k].fname : k \in 1..Len(cs)}

\* C13: when a page cannot be searched or rendered the splitter skips it
\* and still returns the crops of all other pages.
C13_SplitterTolerance ==
    spc \in {"done", "failed"} =>
        \A p \in (1..Len(doc)) \ damaged :
            CropNamesOf(p) \subseteq {work_item_files[i] : i \in 1..Len(work_item_files)}

(***************************************************************************)
(* The job from the winning chunk list to the linked work items             *)
(***************************************************************************)
\* most chunks of a winning chunk list
MaxChunks == 3
\* most crops the splitter keeps; their number is that of the occurrences of
\* the keyword in the pdf, whatever the number of chunks
MaxCrops == 4

Outcomes ==
    {[ok |-> FALSE, num |-> 0]} \cup {[ok |-> TRUE, num |-> n] : n \in 0..MaxChunks}

\* pending holds the chunks whose future as_completed has not yielded yet
AssocInit ==
    /\ outcomes \in UNION {[1..k -> Outcomes] : k \in 1..MaxChunks}
    /\ pending = DOMAIN outcomes
    /\ extracted_items = <<>> /\ work_items = <<>>
    /\ n_crops = 0 /\ linked = FALSE
    /\ apc = "extract"
    /\ TabIdle /\ NormIdle /\ EngIdle /\ CropIdle /\ ItemIdle /\ JobIdle /\ ParIdle /\ UpdIdle /\ ProcIdle /\ StrIdle

\* lines 563-591 of extract_primus_specialized.py for one chunk: one turn of
\* the loop over as_completed, which yields the futures that had finished
\* when it was first advanced in the order of a set and the others as they
\* complete, so that the answers arrive in any order
ExtractChunk ==
    /\ apc = "extract"
    /\ \E c \in pending :
          /\ extracted_items' =
                IF outcomes[c].ok
                THEN Append(extracted_items,
                            [chunk |-> c, progressiveNumber |-> outcomes[c].num, file |-> 0])
                ELSE extracted_items
          /\ pending' = pending \ {c}
    /\ UNCHANGED <<outcomes, work_items, n_crops, linked, apc>>
    /\ UNCHANGED <<tabVars, normVars, engVars, cropVars, itemVars, jobVars, parVars, updVars, procVars, strVars>>

\* line 594 and the hand-over of the sorted items as workItems
SortItems ==
    /\ apc = "extract" /\ pending = {}
    /\ work_items' = SortItemsByNumber(extracted_items, Len(extracted_items))
    /\ apc' = "validate"
    /\ UNCHANGED <<outcomes, pending, extracted_items, n_crops, linked>>
    /\ UNCHANGED <<tabVars, normVars, engVars, cropVars, itemVars, jobVars, parVars, updVars, procVars, strVars>>

\* validate_and_normalize_workitems: an empty list raises, else renumbering
Validate ==
    /\ apc = "validate"
    /\ IF work_items = <<>>
       THEN apc' = "failed" /\ UNCHANGED work_items
       ELSE apc' = "split" /\ work_items' = Renumber(work_items)
    /\ UNCHANGED <<outcomes, pending, extracted_items, n_crops, linked>>
    /\ UNCHANGED <<tabVars, normVars, engVars, cropVars, itemVars, jobVars, parVars, updVars, procVars, strVars>>

\* split_pdf_by_sommano: the files of the crops the splitter kept, none when
\* the split fails or the pdf has no occurrence of the keyword
Split ==
    /\ apc = "split"
    /\ \E n \in 0..MaxCrops :
          /\ n_crops' = n
          /\ apc' = IF n = 0 THEN "done" ELSE "link"
    /\ UNCHANGED <<outcomes, pending, extracted_items, work_items, linked>>
    /\ UNCHANGED <<tabVars, normVars, engVars, cropVars, itemVars, jobVars, parVars, updVars, procVars, strVars>>

\* update_work_items_with_files
LinkFiles ==
    /\ apc = "link"
    /\ work_items' = AttachFiles(work_items, n_crops)
    /\ linked' = TRUE
    /\ apc' = "done"
    /\ UNCHANGED <<outcomes, pending, extracted_items, n_crops>>
    /\ UNCHANGED <<tabVars, normVars, engVars, cropVars, itemVars, jobVars, parVars, updVars, procVars, strVars>>

AssocNext == ExtractChunk \/ SortItems \/ Validate \/ Split \/ LinkFiles
SpecAssoc == AssocInit /\ [][AssocNext]_vars

\* C10: the crop of ordinal i is attached to the work item extracted from the
\* i-th chunk, whatever the extractor rejects or reports: no item holds the
\* crop of another chunk, and every item holds the crop of its own chunk.
C10_CropFollowsChunk ==
    (apc = "done" /\ linked) =>
        \A k \in 1..Len(work_items) : work_items[k].file = work_items[k].chunk

(***************************************************************************)
(* The normalizer applied to a line, then to its own result                 *)
(***************************************************************************)
\* longest line given to the normalizer
MaxNormLen == 5
\* a letter, the blank, the tab, the no-break space and the two separators
NormChars == {"a", " ", "\t", "U+00A0", "/", "-"}

NormInit ==
    /\ raw_line \in SeqsUpTo(NormChars, MaxNormLen)
    /\ normalized_line = <<>>
    /\ npc = "start"
    /\ TabIdle /\ EngIdle /\ CropIdle /\ AssocIdle /\ ItemIdle /\ JobIdle /\ ParIdle /\ UpdIdle /\ ProcIdle /\ StrIdle

\* normalized_line = normalize_text_line(raw_line)
Normalize ==
    /\ npc = "start"
    /\ normalized_line' = normalize_text_line(raw_line)
    /\ npc' = "once"
    /\ UNCHANGED raw_line
    /\ UNCHANGED <<tabVars, engVars, cropVars, assocVars, itemVars, jobVars, parVars, updVars, procVars, strVars>>

\* normalized_line = normalize_text_line(normalized_line)
NormalizeAgain ==
    /\ npc = "once"
    /\ normalized_line' = normalize_text_line(normalized_line)
    /\ npc' = "twice"
    /\ UNCHANGED raw_line
    /\ UNCHANGED <<tabVars, engVars, cropVars, assocVars, itemVars, jobVars, parVars, updVars, procVars, strVars>>

NormNext == Normalize \/ NormalizeAgain
SpecNorm == NormInit /\ [][NormNext]_vars

\* no whitespace next to '/' or '-', no two whitespace characters in a row,
\* none at either end
Tidy(s) ==
    /\ \A i \in 1..Len(s) :
          s[i] \in {"/", "-"} =>
             /\ (i > 1 => ~IsSpace(s[i - 1]))
             /\ (i < Len(s) => ~IsSpace(s[i + 1]))
    /\ \A i \in 1..(Len(s) - 1) : ~(IsSpace(s[i]) /\ IsSpace(s[i + 1]))
    /\ s # <<>> => (~IsSpace(s[1]) /\ ~IsSpace(s[Len(s)]))

\* C7: a second application of normalize_text_line changes nothing, and
\* after one application no whitespace is next to '/' or '-', no run of two
\* or more whitespace characters remains and the line has no leading or
\* trailing whitespace.
C7_Idempotent ==
    /\ [](npc \in {"once", "twice"} => Tidy(normalized_line))
    /\ [][npc = "once" => normalized_line' = normalized_line]_vars

\* a line with whitespace around a separator, normalized twice
C7_Witness ==
    /\ npc = "twice"
    /\ \E i \in 2..(Len(raw_line) - 1) :
          raw_line[i] \in {"/", "-"} /\ IsSpace(raw_line[i - 1]) /\ IsSpace(raw_line[i + 1])
    /\ normalized_line # raw_line
    /\ \E i \in 1..Len(normalized_line) : normalized_line[i] \in {"/", "-"}
    /\ \E i \in 1..Len(normalized_line) : normalized_line[i] = "a"

(***************************************************************************)
(* validate_and_normalize_workitems and calculate_total_amount on lists of *)
(* work items                                                               *)
(***************************************************************************)
\* longest list of work items validated or totalled
MaxListLen == 3

Item(num, ref, desc, q, p, uom) ==
    [isdict |-> TRUE, progressiveNumber |-> num, file |-> 0, referenceCode |-> ref,
     description |-> desc, quantity |-> q, unitPrice |-> p, unitOfMeasurement |-> uom]
ItemFull == Item(0, Str("A01"), Str("Scavo"), Num(3), Num(2), Str("m3"))
ItemNumbered == Item(1, Str("A02"), Str("Nolo"), Num(1), Num(5), Str("h"))
ItemPercent == Item(7, Str("A03"), Str("Oneri"), Num(50), Num(4), Str("%"))
ItemBare == Item(0, Str("A04"), Missing, Missing, Missing, Missing)
ItemNones == Item(1, Str("A05"), None, None, Num(9), None)
ItemNoRef == Item(2, Missing, Str("Test description"), Num(2), Num(2), Str("m"))
ItemEmptyRef == Item(0, Str(""), Str("Posa"), Num(1), None, Str("%"))
ItemNumRef == Item(0, Num(123), Missing, Num(2), Num(3), Missing)
ItemBadQuantity == Item(0, Str("A06"), Str("Posa"), Str("not a number"), Num(1), Missing)
ItemNotDict == [Item(0, Missing, Missing, Missing, Missing, Missing) EXCEPT !.isdict = FALSE]
ItemVocab == {ItemFull, ItemNumbered, ItemPercent, ItemBare, ItemNones, ItemNoRef,
              ItemEmptyRef, ItemNumRef, ItemBadQuantity, ItemNotDict}

ItemLists == {[islist |-> TRUE, items |-> l] : l \in SeqsUpTo(ItemVocab, MaxListLen)}
\* the argument "not an array" of the test of line 185 of the test suite
NotAList == [islist |-> FALSE, items |-> <<>>]

ItemInit ==
    /\ item_input \in ItemLists \cup {NotAList}
    /\ item_list = item_input
    /\ val_error = "" /\ item_total = 0 /\ total_raised = FALSE
    /\ ipc = "start"
    /\ TabIdle /\ NormIdle /\ EngIdle /\ CropIdle /\ AssocIdle /\ JobIdle /\ ParIdle /\ UpdIdle /\ ProcIdle /\ StrIdle

\* validate_and_normalize_workitems(work_items): the list is changed in place
ValidateItems ==
    /\ ipc = "start"
    /\ LET r == validate_and_normalize_workitems(item_list)
       IN /\ item_list' = [item_list EXCEPT !.items = r.items]
          /\ val_error' = r.error
    /\ ipc' = "validated"
    /\ UNCHANGED <<item_input, item_total, total_raised>>
    /\ UNCHANGED <<tabVars, normVars, engVars, cropVars, assocVars, jobVars, parVars, updVars, procVars, strVars>>

\* calculate_total_amount(work_items), on a list as extracted or as validated
TotalItems ==
    /\ ipc \in {"start", "validated"} /\ item_list.islist
    /\ LET r == calculate_total_amount(item_list.items)
       IN item_total' = r.total /\ total_raised' = r.raised
    /\ ipc' = "totalled"
    /\ UNCHANGED <<item_input, item_list, val_error>>
    /\ UNCHANGED <<tabVars, normVars, engVars, cropVars, assocVars, jobVars, parVars, updVars, procVars, strVars>>

ItemNext == ValidateItems \/ TotalItems
SpecItems == ItemInit /\ [][ItemNext]_vars

\* C16: when validate_and_normalize_workitems has returned normally on a
\* list of N items, the item at 0-based position i has progressiveNumber
\* i + 1, so the numbers are exactly 1..N, whatever numbers the items carried.
C16_ProgressiveNumbers ==
    (ipc = "validated" /\ val_error = "") =>
        /\ Len(item_list.items) = Len(item_input.items)
        /\ \A i \in 1..Len(item_list.items) : item_list.items[i].progressiveNumber = i

\* three items that came with the numbers 1, 1 and 7 are numbered 1, 2, 3
C16_Witness ==
    /\ ipc = "validated" /\ val_error = ""
    /\ Len(item_input.items) = 3
    /\ item_input.items[1].progressiveNumber = 1
    /\ item_input.items[2].progressiveNumber = 1
    /\ item_input.items[3].progressiveNumber = 7
    /\ item_list.items[2].progressiveNumber = 2 /\ item_list.items[3].progressiveNumber = 3

\* referenceCode missing, empty or not a string
BadReferenceCode(item) ==
    item.isdict /\ (item.referenceCode.t # "str" \/ item.referenceCode.s = "")

\* C17: validate_and_normalize_workitems raises ValueError on every list
\* holding an item whose referenceCode is missing, empty or not a string.
C17_ReferenceCodeMandatory ==
    (ipc = "validated"
        /\ \E i \in 1..Len(item_input.items) : BadReferenceCode(item_input.items[i]))
    => val_error # ""

\* the value the claim gives a quantity or a price: 0 when missing or None
Counted(v) == IF v.t \in {"missing", "none"} THEN 0 ELSE v.n
\* quantity x unitPrice, or unitPrice x (quantity / 100) for '%', in hundredths
ClaimedValue(item) ==
    IF item.unitOfMeasurement.t = "str" /\ item.unitOfMeasurement.s = "%"
    THEN Counted(item.unitPrice) * Counted(item.quantity)
    ELSE Counted(item.quantity) * Counted(item.unitPrice) * 100
RECURSIVE ClaimedSum(_, _)
ClaimedSum(items, n) ==
    IF n = 0 THEN 0 ELSE ClaimedValue(items[n]) + ClaimedSum(items, n - 1)
\* a list of work items: dicts whose quantity and price are numbers, None
\* or missing
Priced(items) ==
    \A i \in 1..Len(items) :
        /\ items[i].isdict
        /\ items[i].quantity.t \in {"num", "none", "missing"}
        /\ items[i].unitPrice.t \in {"num", "none", "missing"}

\* C19: on every list of work items calculate_total_amount returns the sum
\* of quantity x unitPrice, with unitPrice x (quantity / 100) for an item
\* whose unit is '%' and 0 for a missing or None quantity or price; the
\* empty list gives 0; the call leaves the items as they were.
C19_TotalAmount ==
    /\ [](ipc = "totalled" /\ Priced(item_list.items) =>
            /\ ~total_raised
            /\ item_total = ClaimedSum(item_list.items, Len(item_list.items))
            /\ (item_list.items = <<>> => item_total = 0))
    /\ [][ipc' = "totalled" => item_list' = item_list]_vars

\* 3 m3 at 2, a percentage item of 50 % of 4 and an item without quantity
\* and price total 6 + 2 + 0
C19_Witness ==
    /\ ipc = "totalled" /\ val_error = "" /\ ~total_raised
    /\ item_list.items = <<ItemFull, ItemPercent, ItemBare>>
    /\ item_total = 800

(***************************************************************************)
(* The job: main of extractMetricComputation.py step by step.  steps is    *)
(* the list of the checks and calls made so far, emails the emails sent,   *)
(* exit_code the exit status (-1 while the job runs).                       *)
(***************************************************************************)
\* most files split_pdf_by_sommano returns
MaxFiles == 3
\* longest list of work items the extraction returns
MaxJobItems == 2

IdValid == <<"5","0","7","f","1","f","7","7","b","c","f","8","6","c","d","7","9","9","4","3","9","0","1","1">>
IdShort == <<"i","n","v","a","l","i","d","_","i","d">>
IdNotHex == <<"5","0","7","f","1","f","7","7","b","c","f","8","6","c","d","7","9","9","4","3","9","0","1","g">>
Requests ==
    [user_email : BOOLEAN, s3_url : BOOLEAN, doc_id : {<<>>, IdValid, IdShort, IdNotHex},
     title : BOOLEAN, doc_type : {"", "privateTender", "metricComputation", "tender"}]

JobLists ==
    {NotAList} \cup
    {[islist |-> TRUE, items |-> l] :
        l \in SeqsUpTo({ItemFull, ItemPercent, ItemNoRef, ItemBadQuantity}, MaxJobItems)}
\* what process_pdf_with_primus returns: None, data without the workItems
\* key, or data whose workItems are a list or a value with a length that is
\* no list (NotAList: a string).  Data whose workItems have no length (null,
\* a number) never comes back: len(data['workItems']) of line 450 raises
\* inside the function, which returns None (lines 465-467)
ExtractionResults ==
    {[kind |-> "none", workItems |-> NotAList], [kind |-> "nokey", workItems |-> NotAList]}
    \cup {[kind |-> "data", workItems |-> w] : w \in JobLists}
NoExtraction == [kind |-> "pending", workItems |-> NotAList]
\* what run_primus_quality_check returns: None (a return code other than 0,
\* a timeout, output that is no JSON), or the JSON value the quality script
\* printed: the empty object, an object with other keys and no
\* quality_ratio, a value that is true and no object (a list, a number), an
\* object whose quality_ratio is no number, or an object with the ratio of
\* the quality script, in hundredths
QualityResults ==
    {[kind |-> k, quality_ratio |-> 0] : k \in {"none", "empty", "nokey", "noobject", "noratio"}}
    \cup {[kind |-> "data", quality_ratio |-> q] : q \in {0, QualityFloor - 1, QualityFloor, 100}}
NoQuality == [kind |-> "pending", quality_ratio |-> 0]

JobInit ==
    /\ request \in Requests
    /\ quality_result = NoQuality
    /\ extraction_result = NoExtraction
    /\ job_items = NotAList
    /\ job_error = "" /\ total_amount = 0 /\ db_items = <<>> /\ n_files = 0
    /\ steps = <<>> /\ emails = <<>> /\ exit_code = -1
    /\ temp_file = "none" /\ mongo_client = "none" /\ cleanup_log = <<>>
    /\ jpc = "params"
    /\ TabIdle /\ NormIdle /\ EngIdle /\ CropIdle /\ AssocIdle /\ ItemIdle /\ ParIdle /\ UpdIdle /\ ProcIdle /\ StrIdle

\* lines 760-762
CheckParams ==
    /\ jpc = "params"
    /\ steps' = Append(steps, "required_parameters")
    /\ IF RequiredPresent(request)
       THEN jpc' = "objectid" /\ UNCHANGED job_error
       ELSE jpc' = "except" /\ job_error' = "Missing required parameters"
    /\ UNCHANGED <<request, quality_result, extraction_result, job_items, total_amount, db_items,
                   n_files, emails, exit_code>>
    /\ UNCHANGED <<temp_file, mongo_client, cleanup_log>>
    /\ UNCHANGED <<tabVars, normVars, engVars, cropVars, assocVars, itemVars, parVars, updVars, procVars, strVars>>

\* lines 764-768
CheckObjectId ==
    /\ jpc = "objectid"
    /\ steps' = Append(steps, "validate_objectid")
    /\ IF validate_objectid(request.doc_id)
       THEN jpc' = "connect" /\ UNCHANGED job_error
       ELSE jpc' = "except" /\ job_error' = "Invalid MongoDB ObjectId"
    /\ UNCHANGED <<request, quality_result, extraction_result, job_items, total_amount, db_items,
                   n_files, emails, exit_code>>
    /\ UNCHANGED <<temp_file, mongo_client, cleanup_log>>
    /\ UNCHANGED <<tabVars, normVars, engVars, cropVars, assocVars, itemVars, parVars, updVars, procVars, strVars>>

\* lines 770-772: MongoClient(MONGO_URI) returns a client or raises
Connect ==
    /\ jpc = "connect"
    /\ steps' = Append(steps, "MongoClient")
    /\ \E ok \in BOOLEAN :
          IF ok THEN jpc' = "verify" /\ mongo_client' = "open" /\ UNCHANGED job_error
          ELSE jpc' = "except" /\ job_error' = "MongoClient" /\ UNCHANGED mongo_client
    /\ UNCHANGED <<request, quality_result, extraction_result, job_items, total_amount, db_items,
                   n_files, emails, exit_code>>
    /\ UNCHANGED <<temp_file, cleanup_log>>
    /\ UNCHANGED <<tabVars, normVars, engVars, cropVars, assocVars, itemVars, parVars, updVars, procVars, strVars>>

\* lines 774-779 and verify_document_exists: a document of a known type is
\* found or not, one of another type never
VerifyDocument ==
    /\ jpc = "verify"
    /\ steps' = Append(steps, "verify_document_exists")
    /\ \E found \in BOOLEAN :
          IF found /\ KnownType(request.doc_type)
          THEN jpc' = "download" /\ UNCHANGED job_error
          ELSE jpc' = "except" /\ job_error' = "Document not found"
    /\ UNCHANGED <<request, quality_result, extraction_result, job_items, total_amount, db_items,
                   n_files, emails, exit_code>>
    /\ UNCHANGED <<temp_file, mongo_client, cleanup_log>>
    /\ UNCHANGED <<tabVars, normVars, engVars, cropVars, assocVars, itemVars, parVars, updVars, procVars, strVars>>

\* lines 781-787 and download_s3_file: a path and the downloaded file; None
\* before the temporary file was created (lines 163-180); or None after it
\* was created (lines 189-198), the file then staying on disk unknown to main
Download ==
    /\ jpc = "download"
    /\ steps' = Append(steps, "download_s3_file")
    /\ \E r \in DownloadOutcomes :
          /\ temp_file' = r.file
          /\ IF r.path THEN jpc' = "quality" /\ UNCHANGED job_error
             ELSE jpc' = "except" /\ job_error' = "Failed to download file from S3"
    /\ UNCHANGED <<request, quality_result, extraction_result, job_items, total_amount, db_items,
                   n_files, emails, exit_code>>
    /\ UNCHANGED <<mongo_client, cleanup_log>>
    /\ UNCHANGED <<tabVars, normVars, engVars, cropVars, assocVars, itemVars, parVars, updVars, procVars, strVars>>

\* lines 789-829: a result that is false (None, the empty object) is passed
\* over; of one that is true, quality_result.get raises when it is no object,
\* the comparison raises when the ratio is no number, and a ratio under the
\* floor sends the low-quality email and exits with status 0, sys.exit
\* running the finally block (lines 967-983)
QualityCheck ==
    /\ jpc = "quality"
    /\ steps' = Append(steps, "run_primus_quality_check")
    /\ \E r \in QualityResults :
          /\ quality_result' = r
          /\ IF ~Truthy(r)
             THEN /\ jpc' = "extract"
                  /\ UNCHANGED <<job_error, emails, exit_code, temp_file, mongo_client,
                                 cleanup_log>>
             ELSE IF r.kind \in {"noobject", "noratio"}
             THEN /\ jpc' = "except"
                  /\ job_error' = IF r.kind = "noobject" THEN "AttributeError" ELSE "TypeError"
                  /\ UNCHANGED <<emails, exit_code, temp_file, mongo_client, cleanup_log>>
             ELSE IF QualityRatio(r) < QualityFloor
             THEN /\ emails' = Append(emails, "low_quality")
                  /\ exit_code' = 0
                  /\ Finally
                  /\ jpc' = "exited"
                  /\ UNCHANGED job_error
             ELSE /\ jpc' = "extract"
                  /\ UNCHANGED <<job_error, emails, exit_code, temp_file, mongo_client,
                                 cleanup_log>>
    /\ UNCHANGED <<request, extraction_result, job_items, total_amount, db_items, n_files>>
    /\ UNCHANGED <<tabVars, normVars, engVars, cropVars, assocVars, itemVars, parVars, updVars, procVars, strVars>>

\* lines 831-842: no result or no workItems key raises ValueError; the
\* workItems of any other result have a length for line 842
Extract ==
    /\ jpc = "extract"
    /\ steps' = Append(steps, "process_pdf_with_primus")
    /\ \E r \in ExtractionResults :
          /\ extraction_result' = r
          /\ IF r.kind = "data"
             THEN /\ job_items' = r.workItems
                  /\ jpc' = "validate"
                  /\ UNCHANGED job_error
             ELSE /\ job_error' = "Failed to extract workItems from PDF"
                  /\ jpc' = "except"
                  /\ UNCHANGED job_items
    /\ UNCHANGED <<request, quality_result, total_amount, db_items, n_files, emails, exit_code>>
    /\ UNCHANGED <<temp_file, mongo_client, cleanup_log>>
    /\ UNCHANGED <<tabVars, normVars, engVars, cropVars, assocVars, itemVars, parVars, updVars, procVars, strVars>>

\* lines 843-851
Validate_work_items ==
    /\ jpc = "validate"
    /\ steps' = Append(steps, "validate_and_normalize_workitems")
    /\ LET r == validate_and_normalize_workitems(job_items)
       IN /\ job_items' = [job_items EXCEPT !.items = r.items]
          /\ IF r.error = ""
             THEN jpc' = "total" /\ UNCHANGED job_error
             ELSE jpc' = "except" /\ job_error' = "Validation error"
    /\ UNCHANGED <<request, quality_result, extraction_result, total_amount, db_items, n_files, emails,
                   exit_code>>
    /\ UNCHANGED <<temp_file, mongo_client, cleanup_log>>
    /\ UNCHANGED <<tabVars, normVars, engVars, cropVars, assocVars, itemVars, parVars, updVars, procVars, strVars>>

\* lines 853-856
Total ==
    /\ jpc = "total"
    /\ steps' = Append(steps, "calculate_total_amount")
    /\ LET r == calculate_total_amount(job_items.items)
       IN IF r.raised
          THEN jpc' = "except" /\ job_error' = "TypeError" /\ UNCHANGED total_amount
          ELSE jpc' = "update" /\ total_amount' = r.total /\ UNCHANGED job_error
    /\ UNCHANGED <<request, quality_result, extraction_result, job_items, db_items, n_files, emails,
                   exit_code>>
    /\ UNCHANGED <<temp_file, mongo_client, cleanup_log>>
    /\ UNCHANGED <<tabVars, normVars, engVars, cropVars, assocVars, itemVars, parVars, updVars, procVars, strVars>>

\* the update whose failure is only logged
UpdateDocumentIgnoresFailure ==
    /\ jpc = "update"
    /\ steps' = Append(steps, "update_document")
    /\ \E ok \in BOOLEAN :
          /\ jpc' = "split"
          /\ db_items' = IF ok THEN job_items.items ELSE db_items
          /\ UNCHANGED job_error
    /\ UNCHANGED <<request, quality_result, extraction_result, job_items, total_amount,
                   n_files, emails, exit_code>>
    /\ UNCHANGED <<temp_file, mongo_client, cleanup_log>>
    /\ UNCHANGED <<tabVars, normVars, engVars, cropVars, assocVars, itemVars, parVars, updVars, procVars, strVars>>

\* lines 858-862
UpdateDocument ==
    /\ jpc = "update"
    /\ steps' = Append(steps, "update_document")
    /\ \E ok \in BOOLEAN :
          IF ok
          THEN jpc' = "split" /\ db_items' = job_items.items /\ UNCHANGED job_error
          ELSE jpc' = "except" /\ job_error' = "Failed to update database"
               /\ UNCHANGED db_items
    /\ UNCHANGED <<request, quality_result, extraction_result, job_items, total_amount, n_files, emails,
                   exit_code>>
    /\ UNCHANGED <<temp_file, mongo_client, cleanup_log>>
    /\ UNCHANGED <<tabVars, normVars, engVars, cropVars, assocVars, itemVars, parVars, updVars, procVars, strVars>>

\* lines 864-879: split_pdf_by_sommano returns the files 1..n, {} when it
\* fails or finds nothing
SplitPdf ==
    /\ jpc = "split"
    /\ steps' = Append(steps, "split_pdf_by_sommano")
    /\ \E n \in 0..MaxFiles :
          /\ n_files' = n
          /\ jpc' = IF n = 0 THEN "success" ELSE "link"
    /\ UNCHANGED <<request, quality_result, extraction_result, job_items, job_error, total_amount,
                   db_items, emails, exit_code>>
    /\ UNCHANGED <<temp_file, mongo_client, cleanup_log>>
    /\ UNCHANGED <<tabVars, normVars, engVars, cropVars, assocVars, itemVars, parVars, updVars, procVars, strVars>>

\* lines 869-877 and update_work_items_with_files: the files are attached
\* and the document is written again; a failed write is only logged
LinkWorkItems ==
    /\ jpc = "link"
    /\ steps' = Append(steps, "update_work_items_with_files")
    /\ job_items' = [job_items EXCEPT !.items = AttachFiles(@, n_files)]
    /\ \E ok \in BOOLEAN :
          db_items' = IF ok THEN job_items'.items ELSE db_items
    /\ jpc' = "success"
    /\ UNCHANGED <<request, quality_result, extraction_result, job_error, total_amount, n_files, emails,
                   exit_code>>
    /\ UNCHANGED <<temp_file, mongo_client, cleanup_log>>
    /\ UNCHANGED <<tabVars, normVars, engVars, cropVars, assocVars, itemVars, parVars, updVars, procVars, strVars>>

\* the success email followed by an exception inside the try block
SucceedThenRaises ==
    /\ jpc = "success"
    /\ emails' = Append(emails, "success")
    /\ job_error' = "TypeError"
    /\ jpc' = "except"
    /\ UNCHANGED <<request, quality_result, extraction_result, job_items, total_amount,
                   db_items, n_files, steps, exit_code>>
    /\ UNCHANGED <<temp_file, mongo_client, cleanup_log>>
    /\ UNCHANGED <<tabVars, normVars, engVars, cropVars, assocVars, itemVars, parVars, updVars, procVars, strVars>>

\* lines 881-918 and 967-983: the success email; the finally block runs,
\* main returns and the status is 0
Succeed ==
    /\ jpc = "success"
    /\ emails' = Append(emails, "success")
    /\ exit_code' = 0
    /\ jpc' = "exited"
    /\ UNCHANGED <<request, quality_result, extraction_result, job_items, job_error, total_amount,
                   db_items, n_files, steps>>
    /\ Finally
    /\ UNCHANGED <<tabVars, normVars, engVars, cropVars, assocVars, itemVars, parVars, updVars, procVars, strVars>>

\* lines 920-983: the handler of every exception raised above; sys.exit(1)
\* runs the finally block
HandleError ==
    /\ jpc = "except"
    /\ emails' = IF ErrorEmailDue(request) THEN Append(emails, "error") ELSE emails
    /\ exit_code' = 1
    /\ jpc' = "exited"
    /\ UNCHANGED <<request, quality_result, extraction_result, job_items, job_error, total_amount,
                   db_items, n_files, steps>>
    /\ Finally
    /\ UNCHANGED <<tabVars, normVars, engVars, cropVars, assocVars, itemVars, parVars, updVars, procVars, strVars>>

JobNext ==
    \/ CheckParams \/ CheckObjectId \/ Connect \/ VerifyDocument \/ Download
    \/ QualityCheck \/ Extract \/ Validate_work_items \/ Total \/ UpdateDocument
    \/ SplitPdf \/ LinkWorkItems \/ Succeed \/ HandleError
SpecJob == JobInit /\ [][JobNext]_vars

(***************************************************************************)
(* Claims on the job                                                        *)
(***************************************************************************)
\* a step was made
Made(step) == \E i \in 1..Len(steps) : steps[i] = step

\* C11: when the number of row crops produced for a document differs from
\* the number of work items, the reconciliation step (split_pdf_by_sommano,
\* then update_work_items_with_files) reports a failure: the job does not
\* link a part of the items to crops and complete successfully.
C11_CountDivergenceFails ==
    (jpc = "exited" /\ Made("split_pdf_by_sommano")
        /\ n_files # Len(job_items.items))
    => /\ exit_code = 1
       /\ \A i \in 1..Len(job_items.items) : job_items.items[i].file = 0

\* the workItems the extraction gave are no list or an empty list
BadContainer(r) ==
    r.kind = "data" /\ (~r.workItems.islist \/ r.workItems.items = <<>>)
\* an exception was raised inside the try block of main
FailedRun == job_error # ""
\* the job has failed, or is failing, without a write to the database
FailsBeforeUpdate ==
    /\ jpc \in {"except", "exited"}
    /\ ~Made("update_document") /\ db_items = <<>>
    /\ (jpc = "exited" => exit_code = 1)

\* C18: validate_and_normalize_workitems raises ValueError on an argument
\* that is no list and on the empty list, so in main an empty or invalid
\* workItems result ends the job as a failure before any database update.
C18_ContainerValidation ==
    /\ (BadContainer(extraction_result) /\ jpc # "validate") =>
          (job_error = "Validation error" /\ FailsBeforeUpdate)
    /\ (extraction_result.kind \in {"none", "nokey"}) =>
          (job_error = "Failed to extract workItems from PDF" /\ FailsBeforeUpdate)

\* the extraction gave an empty list and the job ended with status 1 and an
\* error email, the database untouched; so it did on a string
C18_WitnessNoList ==
    /\ jpc = "exited" /\ exit_code = 1
    /\ extraction_result = [kind |-> "data", workItems |-> NotAList]
    /\ job_error = "Validation error" /\ db_items = <<>>
C18_Witness ==
    /\ jpc = "exited" /\ exit_code = 1
    /\ extraction_result.kind = "data"
    /\ extraction_result.workItems = [islist |-> TRUE, items |-> <<>>]
    /\ job_error = "Validation error"
    /\ emails = <<"error">> /\ db_items = <<>>

\* the checks and calls of main in their order
StepOrder ==
    <<"required_parameters", "validate_objectid", "MongoClient", "verify_document_exists",
      "download_s3_file", "run_primus_quality_check", "process_pdf_with_primus",
      "validate_and_normalize_workitems", "calculate_total_amount", "update_document",
      "split_pdf_by_sommano", "update_work_items_with_files">>
\* the error of each precondition check
PreconditionError(step) ==
    CASE step = "required_parameters" -> "Missing required parameters"
      [] step = "validate_objectid" -> "Invalid MongoDB ObjectId"
      [] step = "verify_document_exists" -> "Document not found"
      [] step = "download_s3_file" -> "Failed to download file from S3"
      [] OTHER -> "none"

\* C20: the precondition checks run in the order required parameters,
\* ObjectId validity, document existence, S3 download; the first that fails
\* ends the job with exit code 1 and, when user email, title and type are
\* known, one error email, and no later step is made; an invalid ObjectId
\* causes no MongoDB connection.
C20_PreconditionGate ==
    /\ steps = SubSeq(StepOrder, 1, Len(steps))
    /\ (job_error # "" /\ \E i \in 1..5 : job_error = PreconditionError(StepOrder[i])) =>
          /\ job_error = PreconditionError(steps[Len(steps)])
          /\ jpc \in {"except", "exited"}
          /\ db_items = <<>>
          /\ (jpc = "exited" =>
                /\ exit_code = 1
                /\ emails = IF request.user_email /\ request.title /\ request.doc_type # ""
                            THEN <<"error">> ELSE <<>>)
    /\ (request.doc_id \in {IdShort, IdNotHex} /\ jpc # "params") =>
          /\ ~Made("MongoClient")
          /\ (Made("validate_objectid") /\ jpc # "objectid" =>
                job_error = "Invalid MongoDB ObjectId")

\* a complete request with an id that is no ObjectId: the job ended with
\* status 1 and an error email after two checks
C20_Witness ==
    /\ jpc = "exited" /\ exit_code = 1
    /\ request.doc_id = IdNotHex
    /\ steps = <<"required_parameters", "validate_objectid">>
    /\ job_error = "Invalid MongoDB ObjectId"
    /\ emails = <<"error">>

\* the download gave main a temporary file
Downloaded == Made("download_s3_file") /\ job_error # "Failed to download file from S3"
\* the finally block tried to remove the file and to close the client, and
\* the file and the client are as the log of the block says
CleanupRan ==
    /\ Len(cleanup_log) = 2
    /\ \/ cleanup_log[1] = "Cleaned up temporary file" /\ temp_file = "removed"
       \/ cleanup_log[1] = "Failed to clean up temporary file" /\ temp_file = "present"
    /\ \/ cleanup_log[2] = "MongoDB connection closed" /\ mongo_client = "closed"
       \/ cleanup_log[2] = "Failed to close MongoDB connection" /\ mongo_client = "open"

\* C21 as claimed: once the S3 download has produced a temporary file, every
\* way main terminates (success, failure with exit code 1, low-quality
\* termination with exit code 0) removes that file and closes the MongoDB
\* client before the process exits.
C21_AsClaimed ==
    (jpc = "exited" /\ Downloaded) => (temp_file = "removed" /\ mongo_client = "closed")

\* C21: once the S3 download has produced a temporary file, every way main
\* terminates (success, failure with exit code 1, low-quality termination
\* with exit code 0) calls os.remove on that file and close on the MongoDB
\* client before the process exits; the file is removed and the client
\* closed unless the call raises, which is logged, stops neither the other
\* call nor the exit, and leaves the exit code as it was.
C21_CleanupOnExit ==
    /\ (temp_file \in {"present", "removed"}) <=> Downloaded
    /\ (jpc = "exited" /\ Downloaded) => (CleanupRan /\ exit_code \in {0, 1})
    /\ (jpc = "exited") =>
          /\ exit_code = (IF FailedRun THEN 1 ELSE 0)
          /\ (temp_file = "present" =>
                (cleanup_log # <<>> /\ cleanup_log[1] = "Failed to clean up temporary file"))
          /\ (mongo_client = "open" =>
                (cleanup_log # <<>>
                 /\ cleanup_log[Len(cleanup_log)] = "Failed to close MongoDB connection"))
    /\ (jpc # "exited") => cleanup_log = <<>>
    /\ (jpc # "exited" /\ Downloaded) => (temp_file = "present" /\ mongo_client = "open")

\* the three ways out after a download: low quality (status 0), an error
\* (status 1) and success (status 0), each with the file removed and the
\* client closed
C21_Witness ==
    /\ jpc = "exited" /\ temp_file = "removed" /\ mongo_client = "closed"
    /\ exit_code = 0 /\ emails = <<"low_quality">>
C21_WitnessOnError ==
    /\ jpc = "exited" /\ temp_file = "removed" /\ mongo_client = "closed"
    /\ exit_code = 1 /\ job_error = "Failed to update database"
\* a run that ended a success although os.remove raised: the file is left,
\* the client closed; and one in which close raised after a failure
C21_WitnessRemoveRaised ==
    /\ jpc = "exited" /\ exit_code = 0 /\ emails = <<"success">>
    /\ temp_file = "present" /\ mongo_client = "closed"
    /\ cleanup_log = <<"Failed to clean up temporary file", "MongoDB connection closed">>
C21_WitnessCloseRaised ==
    /\ jpc = "exited" /\ exit_code = 1 /\ emails = <<"error">>
    /\ temp_file = "removed" /\ mongo_client = "open"

(***************************************************************************)
(* Two calls of extract_work_item_chunks on one PrimusPDFExtractor, their  *)
(* page reads interleaved.  par_text[p] is the local full_document_text of *)
(* call p; the calls share the extractor, whose only attribute,            *)
(* junk_patterns, is never written.                                         *)
(***************************************************************************)
\* most pages of a document segmented side by side with another
MaxParPages == 2
Invocations == {1, 2}
ParDocs == UNION {[1..k -> {ItemPage1, ItemPage2}] : k \in 1..MaxParPages}

\* the text every call reads and writes being the one of the first call
SharedText(texts, p) == texts[1]
\* line 143: full_document_text is a local variable of the call
LocalText(texts, p) == texts[p]

ParInit ==
    /\ par_pdf \in [Invocations -> ParDocs]
    /\ par_pno = [p \in Invocations |-> 0]
    /\ par_text = [p \in Invocations |-> << <<>> >>]
    /\ par_result = [p \in Invocations |-> <<>>]
    /\ par_pc = [p \in Invocations |-> "read"]
    /\ TabIdle /\ NormIdle /\ EngIdle /\ CropIdle /\ AssocIdle /\ ItemIdle /\ JobIdle /\ UpdIdle /\ ProcIdle /\ StrIdle

\* lines 149-165: call p reads its next page
ParReadPage(p) ==
    /\ par_pc[p] = "read" /\ par_pno[p] < Len(par_pdf[p])
    /\ par_text' = [par_text EXCEPT
                      ![p] = ReadPage(LocalText(par_text, p), par_pdf[p][par_pno[p] + 1])]
    /\ par_pno' = [par_pno EXCEPT ![p] = @ + 1]
    /\ UNCHANGED <<par_pdf, par_result, par_pc>>
    /\ UNCHANGED <<tabVars, normVars, engVars, cropVars, assocVars, itemVars, jobVars, updVars, procVars, strVars>>

\* lines 167-264: call p runs the strategies on its text and returns
ParSegment(p) ==
    /\ par_pc[p] = "read" /\ par_pno[p] = Len(par_pdf[p])
    /\ par_result' = [par_result EXCEPT ![p] = EngineOnText(LocalText(par_text, p))]
    /\ par_pc' = [par_pc EXCEPT ![p] = "done"]
    /\ UNCHANGED <<par_pdf, par_pno, par_text>>
    /\ UNCHANGED <<tabVars, normVars, engVars, cropVars, assocVars, itemVars, jobVars, updVars, procVars, strVars>>

ParNext == \E p \in Invocations : ParReadPage(p) \/ ParSegment(p)
SpecPar == ParInit /\ [][ParNext]_vars

\* C15: the segmentation of a document shares no state with another call:
\* however two calls interleave, each returns the chunk list it returns
\* when run alone, and two calls on the same text return the same list.
C15_Stateless ==
    /\ \A p \in Invocations :
          par_pc[p] = "done" =>
              par_result[p] = EngineOnText(ReadPages(par_pdf[p], Len(par_pdf[p])))
    /\ (par_pc[1] = "done" /\ par_pc[2] = "done" /\ par_pdf[1] = par_pdf[2]) =>
          par_result[1] = par_result[2]

\* the first call has returned the two items of its document while the
\* second, on another document, is between its two pages
C15_Witness ==
    /\ par_pc[1] = "done" /\ Len(par_result[1]) = 2
    /\ par_pc[2] = "read" /\ par_pno[2] = 1 /\ Len(par_pdf[2]) = 2
    /\ par_pdf[1] # par_pdf[2]

(***************************************************************************)
(* update_document on a database of two collections.  A collection holds   *)
(* at most one document, with the id IdValid; a document has the fields    *)
(* tenderContent.*, content.* and updatedAt.                                *)
(***************************************************************************)
\* longest list of work items written
MaxUpdItems == 2

EmptyContent == [workItems |-> <<>>, totalAmount |-> 0]
IdAbsent == <<"5","0","7","f","1","f","7","7","b","c","f","8","6","c","d","7","9","9","4","3","9","0","1","2">>

\* lines 644-659 with the else branch writing to metric_computations
UpdateTargetDefaults(doc_type) ==
    IF doc_type = "privateTender"
    THEN [collection |-> "private_tenders", prefix |-> "tenderContent"]
    ELSE [collection |-> "metric_computations", prefix |-> "content"]
\* lines 644-659: collection and field prefix by type, none for another type
UpdateTarget(doc_type) ==
    CASE doc_type = "privateTender" ->
            [collection |-> "private_tenders", prefix |-> "tenderContent"]
      [] doc_type = "metricComputation" ->
            [collection |-> "metric_computations", prefix |-> "content"]
      [] OTHER -> [collection |-> "", prefix |-> ""]

\* collection.update_one({'_id': ObjectId(doc_id)}, {'$set': fields}) on one
\* collection: the document after the call and the two counts of the result
update_one(document, doc_id, prefix, items, total, now) ==
    IF document.exists /\ document.id = doc_id
    THEN LET written == [document EXCEPT
                            ![prefix] = [workItems |-> items,
                                         totalAmount |-> total],
                            !.updatedAt = now]
         IN [document |-> written, matched_count |-> 1,
             modified_count |-> IF written = document THEN 0 ELSE 1]
    ELSE [document |-> document, matched_count |-> 0, modified_count |-> 0]

\* lines 637-680; fails: update_one raises a MongoDB error.  ObjectId(doc_id)
\* raises on an invalid id; every exception is caught and gives False.
update_document(db, doc_type, doc_id, items, total, now, fails) ==
    LET target == UpdateTarget(doc_type)
        unwritten == [db |-> db, returned |-> FALSE, matched |-> 0, modified |-> 0]
    IN IF target.collection = "" THEN unwritten
       ELSE IF ~validate_objectid(doc_id) \/ fails THEN unwritten
       ELSE LET r == update_one(db[target.collection], doc_id, target.prefix,
                                items, total, now)
            IN [db |-> [db EXCEPT ![target.collection] = r.document],
                returned |-> r.matched_count # 0,
                matched |-> r.matched_count, modified |-> r.modified_count]

\* a document as it is before the call: absent, fresh, or already holding
\* content c under its prefix
Document(exists, prefix, c) ==
    [[exists |-> exists, id |-> IdValid, tenderContent |-> EmptyContent,
      content |-> EmptyContent, updatedAt |-> 1] EXCEPT ![prefix] = c]

UpdInit ==
    /\ upd_type \in {"privateTender", "metricComputation", "tender", ""}
    /\ upd_id \in {IdValid, IdAbsent, IdShort}
    /\ upd_items \in SeqsUpTo({ItemFull, ItemPercent}, MaxUpdItems)
    /\ upd_total = calculate_total_amount(upd_items).total
    /\ mongo_fails \in BOOLEAN
    /\ \E pt \in BOOLEAN, mc \in BOOLEAN, filled \in BOOLEAN :
          LET c == IF filled
                   THEN [workItems |-> upd_items, totalAmount |-> upd_total]
                   ELSE EmptyContent
          IN store = [private_tenders |-> Document(pt, "tenderContent", c),
                      metric_computations |-> Document(mc, "content", c)]
    /\ upd_result = [returned |-> FALSE, matched |-> 0, modified |-> 0]
    /\ upc = "call"
    /\ TabIdle /\ NormIdle /\ EngIdle /\ CropIdle /\ AssocIdle /\ ItemIdle /\ JobIdle
    /\ ParIdle /\ ProcIdle /\ StrIdle

\* one call; now is get_italian_time(), the same instant as the stored
\* updatedAt or a later one
UpdateCall ==
    /\ upc = "call"
    /\ \E now \in {1, 2} :
          LET r == update_document(store, upd_type, upd_id, upd_items, upd_total,
                                   now, mongo_fails)
          IN /\ store' = r.db
             /\ upd_result' = [returned |-> r.returned, matched |-> r.matched,
                               modified |-> r.modified]
    /\ upc' = "done"
    /\ UNCHANGED <<upd_type, upd_id, upd_items, upd_total, mongo_fails>>
    /\ UNCHANGED <<tabVars, normVars, engVars, cropVars, assocVars, itemVars, jobVars,
                   parVars, procVars, strVars>>

UpdNext == UpdateCall
SpecUpdate == UpdInit /\ [][UpdNext]_vars

\* the content written by the call
Written == [workItems |-> upd_items, totalAmount |-> upd_total]
\* a document of the collection matches the id
Matches(collection) == store[collection].exists /\ store[collection].id = upd_id

\* C22: update_document writes workItems and totalAmount under
\* tenderContent.* in private_tenders for the type privateTender and under
\* content.* in metric_computations for metricComputation; for any other
\* type it writes nothing and returns False; it returns False when no
\* document matched the id and True when one matched, even if nothing was
\* modified (the call raising no database error).
C22_UpdateRouting ==
    [][(upc = "call" /\ upc' = "done") =>
        /\ upd_type = "privateTender" =>
              /\ store'.metric_computations = store.metric_computations
              /\ store'.private_tenders.content = store.private_tenders.content
              /\ upd_result'.returned =>
                    store'.private_tenders.tenderContent = Written
              /\ ~mongo_fails => (upd_result'.returned <=> Matches("private_tenders"))
        /\ upd_type = "metricComputation" =>
              /\ store'.private_tenders = store.private_tenders
              /\ store'.metric_computations.tenderContent =
                    store.metric_computations.tenderContent
              /\ upd_result'.returned =>
                    store'.metric_computations.content = Written
              /\ ~mongo_fails => (upd_result'.returned <=> Matches("metric_computations"))
        /\ upd_type \notin {"privateTender", "metricComputation"} =>
              (store' = store /\ ~upd_result'.returned)
        /\ ~upd_result'.returned => store' = store
        /\ (upd_result'.matched = 1 /\ upd_result'.modified = 0) => upd_result'.returned
    ]_vars

\* a privateTender call that matched a document already holding the same
\* values at the same instant: nothing modified, True returned
C22_Witness ==
    /\ upc = "done" /\ upd_type = "privateTender" /\ Len(upd_items) = 2
    /\ upd_result = [returned |-> TRUE, matched |-> 1, modified |-> 0]
    /\ store.private_tenders.tenderContent = Written
    /\ store.private_tenders.content = EmptyContent

(***************************************************************************)
(* process_pdf_with_primus and the extraction subprocess.  The function    *)
(* polls output_queue, which the two reader threads fill from the child's  *)
(* stdout and stderr; the child, the readers and the clock move on their   *)
(* own.  child_state is "running", "killed", "exit0" or "exit1".  The      *)
(* lines of a pipe are numbered from 1 and an item of output_queue is      *)
(* [pipe, line]; the end mark (pipe_name, None) has line 0.  stream[p]     *)
(* tells how many lines the child writes to pipe p, how many of them the   *)
(* reader has read and whether the pipe is closed at the child's end.      *)
(***************************************************************************)
\* most lines the child writes to one pipe
MaxStreamLines == 2

Pipes == {"stdout", "stderr"}
\* what the subprocess has done when it exits by itself: its return code
\* and the output file it has left: none, text json.load rejects ("badjson"),
\* valid JSON on which lines 449-450 raise ("nolen": a number, null, or
\* workItems without a length), any other valid JSON ("json")
Children == [returncode : {0, 1}, output : {"none", "badjson", "nolen", "json"}]
NoChild == [returncode |-> 0, output |-> "none"]
\* line 333: (pipe_name, None)
EndMark(p) == [pipe |-> p, line |-> 0]
\* the pipes once the child is gone: closed, what was written stays readable
Closed(st) == [p \in Pipes |-> [st[p] EXCEPT !.eof = TRUE]]

\* lines 372-374: the timeout is looked at only inside the loop, which runs
\* while a stream is open or the queue holds something
TimedOut(over, ended, queue) ==
    over /\ (~(ended["stdout"] /\ ended["stderr"]) \/ queue # <<>>)

\* lines 290-344: the file checks, then Popen, which starts the child with
\* its two pipes; when Popen raises, the handler of lines 465-467 returns
\* None
StartProcess ==
    /\ ppc = "start"
    /\ IF pdf_file = "pdf"
       THEN \E popen_ok \in BOOLEAN :
               IF popen_ok
               THEN /\ child_state' = "running"
                    /\ stream' \in [Pipes -> {[lines |-> n, read |-> 0, eof |-> FALSE] :
                                                n \in 0..MaxStreamLines}]
                    /\ ppc' = "stdout_thread"
                    /\ UNCHANGED proc_result
               ELSE /\ proc_result' = "None" /\ ppc' = "returned"
                    /\ UNCHANGED <<child_state, stream>>
       ELSE /\ proc_result' = "None" /\ ppc' = "returned"
            /\ UNCHANGED <<child_state, stream>>
    /\ UNCHANGED <<pdf_file, child, readers, output_queue, streams_ended, over_time,
                   overran, killed>>
    /\ UNCHANGED <<all_stdout, all_stderr>>
    /\ UNCHANGED <<tabVars, normVars, engVars, cropVars, assocVars, itemVars, jobVars,
                   parVars, updVars>>

\* a reader thread is started: the thread runs read_output from then on;
\* when start() raises (no new thread can be had), the handler of lines
\* 465-467 returns None, with no kill of the child and no join
StartThread(p, then) ==
    /\ \E started \in BOOLEAN :
          IF started
          THEN /\ readers' = [readers EXCEPT ![p] = "reading"]
               /\ ppc' = then
               /\ UNCHANGED proc_result
          ELSE /\ proc_result' = "None" /\ ppc' = "returned"
               /\ UNCHANGED readers
    /\ UNCHANGED <<pdf_file, child, child_state, output_queue, streams_ended, over_time,
                   overran, killed>>
    /\ UNCHANGED strVars
    /\ UNCHANGED <<tabVars, normVars, engVars, cropVars, assocVars, itemVars, jobVars,
                   parVars, updVars>>

\* lines 347-360: the queue and the two Thread objects are made and
\* stdout_thread.start() is called
StartStdoutThread == ppc = "stdout_thread" /\ StartThread("stdout", "stderr_thread")

\* lines 361-368: stderr_thread.start() is called, then start_time is taken
\* and streams_ended made: the loop comes next
StartStderrThread == ppc = "stderr_thread" /\ StartThread("stderr", "check")

\* lines 372-377: the test of the while loop and the timeout check at the
\* top of its body; process.kill() ends a child that still runs, which
\* closes its pipes, and the return None of line 377 waits for the finally
\* clause
LoopTest ==
    /\ ppc = "check"
    /\ IF TimedOut(over_time, streams_ended, output_queue)
       THEN /\ killed' = TRUE
            /\ child_state' = IF child_state = "running" THEN "killed"
                                ELSE child_state
            /\ stream' = Closed(stream)
            /\ ppc' = "join"
       ELSE /\ ppc' = IF streams_ended["stdout"] /\ streams_ended["stderr"]
                         /\ output_queue = <<>>
                      THEN "wait" ELSE "get"
            /\ UNCHANGED <<killed, child_state, stream>>
    /\ UNCHANGED <<pdf_file, child, readers, output_queue, streams_ended, over_time,
                   overran, proc_result>>
    /\ UNCHANGED <<all_stdout, all_stderr>>
    /\ UNCHANGED <<tabVars, normVars, engVars, cropVars, assocVars, itemVars, jobVars,
                   parVars, updVars>>

\* line 409: process.wait() blocks, without a timeout, until the child has
\* exited; lines 412-423 log and, for a code other than 0, return None,
\* which waits for the finally clause
ProcessWait ==
    /\ ppc = "wait"
    /\ child_state \in {"exit0", "exit1"}
    /\ ppc' = "join"
    /\ UNCHANGED <<pdf_file, child, child_state, readers, output_queue, streams_ended,
                   over_time, overran, killed, proc_result>>
    /\ UNCHANGED strVars
    /\ UNCHANGED <<tabVars, normVars, engVars, cropVars, assocVars, itemVars, jobVars,
                   parVars, updVars>>

\* lines 429-432: the finally clause joins each reader thread, waiting at
\* most 5 seconds for it, so a reader may still be running afterwards;
\* then the return None of line 377 or 423 is done, or the function goes on
\* to the output file
Join ==
    /\ ppc = "join"
    /\ IF killed \/ child_state # "exit0"
       THEN proc_result' = "None" /\ ppc' = "returned"
       ELSE ppc' = "read" /\ UNCHANGED proc_result
    /\ UNCHANGED <<pdf_file, child, child_state, readers, output_queue, streams_ended,
                   over_time, overran, killed>>
    /\ UNCHANGED strVars
    /\ UNCHANGED <<tabVars, normVars, engVars, cropVars, assocVars, itemVars, jobVars,
                   parVars, updVars>>

\* lines 434-467: the output file is read, removed (a failure of os.remove
\* is passed over) and its data returned; None without the file, when
\* json.load raises, and when 'workItems' in data or len(data['workItems'])
\* raises (lines 449-450), which the handler of lines 465-467 catches with
\* the file still in place
ReadOutput ==
    /\ ppc = "read"
    /\ IF child.output = "json"
       THEN /\ proc_result' = "data"
            /\ \E removed \in BOOLEAN :
                  child' = [child EXCEPT !.output = IF removed THEN "none" ELSE @]
       ELSE proc_result' = "None" /\ UNCHANGED child
    /\ ppc' = "returned"
    /\ UNCHANGED <<pdf_file, child_state, readers, output_queue, streams_ended,
                   over_time, overran, killed>>
    /\ UNCHANGED strVars
    /\ UNCHANGED <<tabVars, normVars, engVars, cropVars, assocVars, itemVars, jobVars,
                   parVars, updVars>>

\* the function is between taking start_time (line 366) and its return
InCall == ppc \in {"check", "get", "wait", "join", "read"}

\* the child exits by itself, with a return code and with or without an
\* output file, which closes its pipes; the readers come to the end of
\* their pipes later, each on its own
ChildExits ==
    /\ child_state = "running"
    /\ \E c \in Children :
          /\ child' = c
          /\ child_state' = IF c.returncode = 0 THEN "exit0" ELSE "exit1"
    /\ stream' = Closed(stream)
    /\ UNCHANGED <<pdf_file, readers, output_queue, streams_ended, over_time,
                   overran, killed, proc_result, ppc>>
    /\ UNCHANGED <<all_stdout, all_stderr>>
    /\ UNCHANGED <<tabVars, normVars, engVars, cropVars, assocVars, itemVars, jobVars,
                   parVars, updVars>>

\* timeout_seconds (line 367) have passed since start_time (line 366)
Deadline ==
    /\ InCall /\ ~over_time
    /\ over_time' = TRUE
    /\ overran' = (child_state = "running")
    /\ UNCHANGED <<pdf_file, child, child_state, readers, output_queue, streams_ended,
                   killed, proc_result, ppc>>
    /\ UNCHANGED strVars
    /\ UNCHANGED <<tabVars, normVars, engVars, cropVars, assocVars, itemVars, jobVars,
                   parVars, updVars>>

ProcInit ==
    /\ pdf_file \in {"missing", "empty", "notpdf", "pdf"}
    /\ child = NoChild /\ child_state = "none"
    /\ readers = [p \in Pipes |-> "none"]
    /\ output_queue = <<>>
    /\ streams_ended = [p \in Pipes |-> FALSE]
    /\ over_time = FALSE /\ overran = FALSE /\ killed = FALSE
    /\ proc_result = "pending" /\ ppc = "start"
    /\ TabIdle /\ NormIdle /\ EngIdle /\ CropIdle /\ AssocIdle /\ ItemIdle /\ JobIdle
    /\ ParIdle /\ UpdIdle /\ StrIdle
(***************************************************************************)
(* Claims on the sealing rule, the header gate and the start filter of the *)
(* Tabular strategy                                                        *)
(***************************************************************************)
\* the line the loop is about to read is an accepted new-item start
AcceptedStartAt(i) ==
    LET s == Strip(lines[i])
    IN in_data_section /\ s # <<>> /\ ~IsHeaderLine(s) /\ IsItemStart(s)
\* the loop reads line line_num in this step
ReadsLine == tpc = "scan" /\ line_num <= Len(lines) /\ line_num' = line_num + 1
\* length of the text of a chunk: its stripped lines and the newlines between
JoinedLength(idx) ==
    SumStrippedLen({idx[k] : k \in 1..Len(idx)}) + Len(idx) - 1
\* the result after the open chunk cur met the size floor test
SealedUnderFloor(cs, cur) ==
    IF cur # <<>> /\ JoinedLength(cur) > PrimusMinLen THEN Append(cs, cur) ELSE cs
\* the chunks of the result stand in the order of their start lines
ChunksInOrder ==
    \A k \in 1..Len(chunks) :
        /\ chunks[k] # <<>>
        /\ k > 1 => chunks[k - 1][1] < chunks[k][1]
        /\ (tpc = "scan" /\ current_chunk # <<>>) => chunks[k][1] < current_chunk[1]

\* C24: on every accepted new-item start the open chunk is appended to the
\* result exactly when its joined text is longer than 30 characters and the
\* new chunk is exactly the start line; at the end of the input the open
\* chunk is sealed under the same floor; the result is in input order.
C24_SealingRule ==
    /\ []ChunksInOrder
    /\ [][(ReadsLine /\ AcceptedStartAt(line_num)) =>
              /\ chunks' = SealedUnderFloor(chunks, current_chunk)
              /\ current_chunk' = <<line_num>>]_vars
    /\ [][(tpc = "scan" /\ tpc' = "done") =>
              chunks' = SealedUnderFloor(chunks, current_chunk)]_vars
\* a long item sealed by the start after it, and that short start dropped at
\* the end of the input
C24_Witness ==
    /\ tpc = "done"
    /\ lines = <<TabHeader, TabItemLong, TabItemShort>>
    /\ chunks = << <<2>> >>
    /\ current_chunk = <<3>>

\* the lines held by the result or by the open chunk
HeldLines ==
    {current_chunk[k] : k \in 1..Len(current_chunk)}
        \cup UNION {{chunks[c][k] : k \in 1..Len(chunks[c])} : c \in 1..Len(chunks)}

\* C25: the strategy is in the data section exactly from the first header
\* line on, no line at or before that header (and no header line) is in a
\* chunk, the data section is never left, and a header line met in the data
\* section neither seals nor extends the open chunk.
C25_HeaderGating ==
    /\ [](in_data_section <=> (FirstHeader > 0 /\ FirstHeader < line_num))
    /\ [](\A i \in HeldLines :
             FirstHeader > 0 /\ i > FirstHeader /\ ~IsHeaderLine(Strip(lines[i])))
    /\ [][in_data_section => in_data_section']_vars
    /\ [][(ReadsLine /\ in_data_section /\ IsHeaderLine(Strip(lines[line_num]))) =>
              (chunks' = chunks /\ current_chunk' = current_chunk)]_vars
\* a second header line read while a chunk is open
C25_Witness ==
    /\ lines = <<TabHeader, TabItemLong, TabHeader>>
    /\ line_num = 4 /\ tpc = "scan"
    /\ in_data_section
    /\ chunks = <<>> /\ current_chunk = <<2>>

\* the lines on which the chunks of the result and the open chunk start
StartLines ==
    {chunks[c][1] : c \in 1..Len(chunks)}
        \cup (IF current_chunk # <<>> THEN {current_chunk[1]} ELSE {})
\* the word that follows the item number (and the fraction part, if any)
StartLeadWord(s) ==
    LET n == LeadNumLen(s)
        a == IF n > 0 /\ Len(s) >= n + 1 /\ s[n + 1] = "/"
             THEN RunEnd(s, n + 2, Digits) ELSE n + 1
        w == RunEnd(s, a, Spaces)
    IN SubSeq(s, w, RunEnd(s, w, Alphas) - 1)
\* the line read in this step is a start candidate
CandidateAt(i) ==
    LET s == Strip(lines[i])
    IN /\ in_data_section /\ s # <<>> /\ ~IsHeaderLine(s)
       /\ ~is_reference_code_ending(s)
       /\ (main_item_match(s) \/ fraction_match(s) \/ special_case_match(s))

\* C26 as claimed: every line that starts a chunk carries a number in 1..100
\* and is not followed by a blacklisted lead word, whichever of the three
\* start forms it has.
C26_AsClaimed ==
    \A i \in StartLines :
        LET s == Strip(lines[i])
        IN /\ LeadNumLen(s) > 0
           /\ LeadNum(s) \in 1..PrimusMaxItem
           /\ ~BlacklistedLead(StartLeadWord(s))
\* C26: every line that starts a chunk carries a number in 1..100; on the
\* number + capitalized word form it is not followed by a blacklisted lead
\* word, and a candidate of that form which fails the filter starts no chunk
\* and is appended to the open chunk; a candidate on the fraction form or on
\* the special numeric form always starts a chunk.
C26_StartFilter ==
    /\ [](\A i \in StartLines :
             LET s == Strip(lines[i])
             IN /\ LeadNumLen(s) > 0
                /\ LeadNum(s) \in 1..PrimusMaxItem
                /\ main_item_match(s) => ~BlacklistedLead(StartLeadWord(s)))
    /\ [][(/\ ReadsLine /\ CandidateAt(line_num)
           /\ main_item_match(Strip(lines[line_num]))
           /\ BlacklistedLead(StartLeadWord(Strip(lines[line_num])))) =>
              /\ chunks' = chunks
              /\ current_chunk' = IF current_chunk # <<>>
                                  THEN Append(current_chunk, line_num) ELSE <<>>]_vars
    /\ [][(/\ ReadsLine /\ CandidateAt(line_num)
           /\ ~main_item_match(Strip(lines[line_num]))) =>
              current_chunk' = <<line_num>>]_vars
\* a fraction start followed by a blacklisted word opened a chunk, and a
\* number + word candidate with the same word was appended to it
C26_Witness ==
    /\ lines = <<TabHeader, TabFractionLinea, TabRejected>>
    /\ line_num = 4
    /\ chunks = <<>> /\ current_chunk = <<2, 3>>

(***************************************************************************)
(* The loop of extract_fraction_format_chunks, one line at a time. The     *)
(* locals lines, line_num, chunks and current_chunk are those of the       *)
(* function; a chunk is the sequence of its stripped lines.                *)
(***************************************************************************)
FracStart == <<"1","9","/","3","5"," ","4","0","3","3"," ","R","i","m","o","z","i","o","n","e"," ","d","i"," ","p","a","v","i","m","e","n","t","o"," ","i","n"," ","p","i","a","s","t","r","e","l","l","e">>
FracStartTotal == <<"2","/","2"," ","S","O","M","M","A","N","O"," ","a"," ","c","o","r","p","o">>
FracShortStart == <<"1","/","1"," ","A">>
FracContinuation == <<"e","s","e","g","u","i","t","a"," ","a"," ","m","a","n","o">>
FracTotal == <<"S","O","M","M","A","N","O"," ","m","2"," ","1","2",",","0","0">>
FracVocab == {FracStart, FracStartTotal, FracShortStart, FracContinuation, FracTotal, <<>>}
FracDocs == SeqsUpTo(FracVocab, MaxTabLines)

FracInit ==
    /\ lines \in FracDocs
    /\ line_num = 1
    /\ chunks = <<>>
    /\ current_chunk = <<>>
    /\ in_data_section = FALSE
    /\ tpc = "scan"
    /\ NormIdle /\ EngIdle /\ CropIdle /\ AssocIdle /\ ItemIdle /\ JobIdle /\ ParIdle /\ UpdIdle /\ ProcIdle /\ StrIdle

\* one turn of the for loop of extract_fraction_format_chunks
FractionLine ==
    /\ tpc = "scan"
    /\ line_num <= Len(lines)
    /\ LET st == FractionLineStep([chunks |-> chunks, current_chunk |-> current_chunk],
                                  lines, line_num)
       IN /\ chunks' = st.chunks
          /\ current_chunk' = st.current_chunk
    /\ line_num' = line_num + 1
    /\ UNCHANGED <<lines, in_data_section, tpc, normVars, engVars, cropVars, assocVars,
                   itemVars, jobVars, parVars, updVars, procVars, strVars>>

\* after the loop: the last chunk is saved and the chunks are returned
FractionReturn ==
    /\ tpc = "scan"
    /\ line_num > Len(lines)
    /\ chunks' = SealFractionChunk(chunks, current_chunk)
    /\ tpc' = "done"
    /\ UNCHANGED <<lines, line_num, current_chunk, in_data_section,
                   normVars, engVars, cropVars, assocVars, itemVars, jobVars, parVars, updVars, procVars, strVars>>

FracNext == FractionLine \/ FractionReturn
SpecFraction == FracInit /\ [][FracNext]_vars

\* the stripped line read in this step
LineRead == Strip(lines[line_num])
\* number of lines of a chunk that contain the totals keyword
TotalsLines(c) == {k \in 1..Len(c) : Contains(c[k], SOMMANO)}
RECURSIVE SumLen(_)
SumLen(c) == IF c = <<>> THEN 0 ELSE Len(c[1]) + SumLen(Tail(c))
\* the result after the chunk c met the size floor test
SealedFraction(cs, c) ==
    IF c # <<>> /\ SumLen(c) + Len(c) - 1 > FractionMinLen THEN Append(cs, c) ELSE cs

\* C27 as claimed: every sealed chunk contains at most one SOMMANO line,
\* which is then its last line.
C27_AsClaimed ==
    \A c \in 1..Len(chunks) :
        /\ Cardinality(TotalsLines(chunks[c])) <= 1
        /\ TotalsLines(chunks[c]) \subseteq {Len(chunks[c])}
\* C27: a chunk is opened only by a fraction start line; the open chunk is
\* sealed when the next start line is read and at once when a SOMMANO line
\* is appended to it, the open chunk being empty afterwards; a line read
\* between a SOMMANO line and the next start goes to no chunk; among the
\* lines that follow the start line of a sealed chunk at most one contains
\* SOMMANO, and it is the last line of the chunk.
C27_EagerClose ==
    /\ [](\A c \in 1..Len(chunks) :
             /\ fraction_start_match(chunks[c][1])
             /\ TotalsLines(chunks[c]) \subseteq {1, Len(chunks[c])})
    /\ [](tpc = "scan" /\ current_chunk # <<>> =>
             /\ fraction_start_match(current_chunk[1])
             /\ TotalsLines(current_chunk) \subseteq {1})
    /\ [][(ReadsLine /\ fraction_start_match(LineRead)) =>
              /\ chunks' = SealedFraction(chunks, current_chunk)
              /\ current_chunk' = <<LineRead>>]_vars
    /\ [][(/\ ReadsLine /\ ~fraction_start_match(LineRead)
           /\ current_chunk # <<>> /\ Contains(LineRead, SOMMANO)) =>
              /\ chunks' = SealedFraction(chunks, Append(current_chunk, LineRead))
              /\ current_chunk' = <<>>]_vars
    /\ [][(ReadsLine /\ ~fraction_start_match(LineRead) /\ current_chunk = <<>>) =>
              (chunks' = chunks /\ current_chunk' = <<>>)]_vars
\* a chunk closed by its SOMMANO line, and the line after it left out
C27_Witness ==
    /\ lines = <<FracStart, FracTotal, FracContinuation>>
    /\ tpc = "done"
    /\ chunks = << <<FracStart, FracTotal>> >>
    /\ current_chunk = <<>>

(***************************************************************************)
(* Claims on layout detection                                              *)
(***************************************************************************)
\* the layout the engine detected is Tabular
TabularLayout == tariffa_found /\ designazione_found
\* the engine is past format detection on a document it could open
Detected == pc \notin {"start", "detect"} /\ pdf.openable

\* C30 as claimed: when the layout is not Tabular the strategies after
\* Tabular are still all tried in order, the fraction-numbered strategy first.
C30_AsClaimed ==
    (Returned /\ ~TabularLayout) => (tried # <<>> /\ tried[1] = "fraction")
\* C30: the layout is Tabular exactly when both markers occur in the cleaned
\* document text; it is computed once, before any strategy runs, and never
\* changes; when it is Tabular and the Tabular strategy under-produces, the
\* fraction-numbered strategy, then (if that under-produces) the cascade,
\* then (if that yields nothing) the delimiter strategy are tried; when it
\* is not Tabular only the cascade and, if it yields nothing, the delimiter
\* strategy are tried.
C30_LayoutAdvisory ==
    /\ [](Detected => /\ tariffa_found = TextContains(full_document_text, TARIFFA)
                      /\ designazione_found = TextContains(full_document_text, DESIGNAZIONE))
    /\ [](pc \in {"start", "detect"} => tried = <<>>)
    /\ [][pc \notin {"start", "detect"} =>
             /\ tariffa_found' = tariffa_found
             /\ designazione_found' = designazione_found
             /\ full_document_text' = full_document_text]_vars
    /\ [](tried # <<>> => (tried[1] = "primus" <=> TabularLayout))
    /\ [](Returned =>
             IF TabularLayout
             THEN Len(primus_chunks) <= PrimusThreshold =>
                     /\ Len(tried) >= 2 /\ tried[2] = "fraction"
                     /\ Len(fraction_chunks) <= FractionThreshold =>
                           /\ Len(tried) >= 3 /\ tried[3] = "cascade"
                           /\ (best_chunks = result)
                           /\ (Len(tried) = 4) <=> (CascadeChunks(full_document_text) = <<>>)
                           /\ Len(tried) = 4 => tried[4] = "fallback"
             ELSE /\ tried \in {<<"cascade">>, <<"cascade", "fallback">>}
                  /\ (tried = <<"cascade">>) <=> (CascadeChunks(full_document_text) # <<>>))
\* a Tabular layout on which the Tabular and the fraction-numbered strategy
\* fell short and the cascade's chunks were returned
C30_Witness ==
    /\ Returned /\ TabularLayout
    /\ tried = <<"primus", "fraction", "cascade">>
    /\ result # <<>>

(***************************************************************************)
(* The generic cascade of extract_work_item_chunks, lines 213-235, and the *)
(* delimiter-driven fallback behind it, lines 237-253, one line at a time. *)
(* lines, chunks and current_chunk are the locals of the fallback; chunks  *)
(* holds best_chunks when the cascade found some. A chunk is the sequence  *)
(* of its lines.                                                           *)
(***************************************************************************)
\* longest text given to the fallback, in lines
MaxFallbackLines == 7
FbNumber == <<"1"," ","A">>
FbPlain == <<"x">>
FbTotal == <<"S","O","M","M","A","N","O">>
FallbackTexts ==
    SeqsUpTo({FbNumber, FbPlain, FbTotal}, MaxFallbackLines)
        \cup {<< <<>> >> \o t : t \in SeqsUpTo({FbNumber, FbTotal}, MaxFallbackLines - 1)}
\* texts on which the patterns of the cascade find valid segments: a
\* complete item, a plain line, and lines that one pattern or another cuts at
RawComplete == <<"1"," ","S","c","a","v","o"," ","d","i"," ","s","t","e","r","r","o"," ","i","n"," ","p","o","z","z","o"," ","S","O","M","M","A","N","O"," ","6",",","0","0"," ","m","3">>
CascadeTexts ==
    {<<RawComplete, RawPlain>> \o t :
        t \in {<<>>, <<FbPlain, FbPlain, FbPlain, FbTotal>>,
                <<<<"2"," ","F","o","n","d","a","z","i","o","n","e">>>>, <<<<"7"," ","1","2",".","A">>>>, <<<<"3","/","4"," ","O","p","e","r","e">>>>,
                <<<<"2"," ","F","o","n","d","a","z","i","o","n","e"," ","i","n"," ","c","e","m","e","n","t","o"," ","a","r","m","a","t","o"," ","p","e","r"," ","p","l","i","n","t","i"," ","e"," ","t","r","a","v","i">>, RawTotal>>,
                <<<<"2"," ","F","o","n","d","a","z","i","o","n","e"," ","i","n"," ","c","e","m","e","n","t","o"," ","a","r","m","a","t","o"," ","p","e","r"," ","p","l","i","n","t","i"," ","e"," ","t","r","a","v","i">>, RawTotal,
                  <<"3","/","4"," ","O","p","e","r","e"," ","i","n"," ","c","e","m","e","n","t","o"," ","a","r","m","a","t","o"," ","p","e","r"," ","p","l","i","n","t","i"," ","e"," ","t","r","a","v","i">>, RawTotal>>}}

FallbackInit ==
    /\ lines \in FallbackTexts \cup CascadeTexts
    /\ line_num = 1
    /\ chunks = <<>>
    /\ current_chunk = <<>>
    /\ in_data_section = FALSE
    /\ tpc = "cascade"
    /\ NormIdle /\ EngIdle /\ CropIdle /\ AssocIdle /\ ItemIdle /\ JobIdle /\ ParIdle /\ UpdIdle /\ ProcIdle /\ StrIdle

\* lines 213-237: the cascade, and the test `if not best_chunks`
CascadeGate ==
    /\ tpc = "cascade"
    /\ IF CascadeChunks(lines) # <<>>
       THEN chunks' = CascadeChunks(lines) /\ tpc' = "done"
       ELSE chunks' = <<>> /\ tpc' = "scan"
    /\ UNCHANGED <<lines, line_num, current_chunk, in_data_section,
                   normVars, engVars, cropVars, assocVars, itemVars, jobVars, parVars, updVars, procVars, strVars>>

\* one turn of the loop of lines 244-251
FallbackLine ==
    /\ tpc = "scan"
    /\ line_num <= Len(lines)
    /\ LET st == FallbackLineStep([chunks |-> chunks, current_chunk |-> current_chunk],
                                  lines, line_num)
       IN /\ chunks' = st.chunks
          /\ current_chunk' = st.current_chunk
    /\ line_num' = line_num + 1
    /\ UNCHANGED <<lines, in_data_section, tpc, normVars, engVars, cropVars, assocVars,
                   itemVars, jobVars, parVars, updVars, procVars, strVars>>

\* line 253: best_chunks = chunks
FallbackReturn ==
    /\ tpc = "scan"
    /\ line_num > Len(lines)
    /\ tpc' = "done"
    /\ UNCHANGED <<lines, line_num, chunks, current_chunk, in_data_section,
                   normVars, engVars, cropVars, assocVars, itemVars, jobVars, parVars, updVars, procVars, strVars>>

FallbackNext == CascadeGate \/ FallbackLine \/ FallbackReturn
SpecFallback == FallbackInit /\ [][FallbackNext]_vars

\* the valid segments of each pattern on the text
Segments == [k \in 1..NumPatterns |-> ValidChunks(k, lines)]
\* the pattern the cascade keeps: the greatest count, the earliest on a tie
WinningPattern(segs) ==
    CHOOSE k \in 1..NumPatterns :
        \A j \in 1..NumPatterns :
            /\ Len(segs[j]) <= Len(segs[k])
            /\ j < k => Len(segs[j]) < Len(segs[k])
\* a segment the cascade may count: it holds SOMMANO and is over 50 long
CountedSegment(c) ==
    /\ \E n \in 1..Len(c) : Contains(c[n], SOMMANO)
    /\ SumLen(c) + Len(c) - 1 > CascadeMinLen
\* the cascade runs in this step
CascadeRuns == tpc = "cascade" /\ tpc' # "cascade"

\* C28: the cascade keeps the segment list of the pattern with the greatest
\* count of valid segments (holding SOMMANO, longer than 50 characters) on
\* the whole text, the earliest pattern winning a tie, and yields nothing
\* only when every pattern has no valid segment.
C28_CascadeSelection ==
    [][CascadeRuns =>
          LET segs == Segments
          IN /\ chunks' = segs[WinningPattern(segs)]
             /\ \A n \in 1..Len(chunks') : CountedSegment(chunks'[n])
             /\ \A k \in 1..NumPatterns : Len(segs[k]) <= Len(chunks')
             /\ (chunks' = <<>>) <=> (\A k \in 1..NumPatterns : segs[k] = <<>>)
             /\ lines' = lines]_vars
\* a tie between the first and the third pattern, whose lists differ, went to
\* the first
C28_Witness ==
    /\ tpc = "done" /\ line_num = 1
    /\ Len(Segments[1]) = Len(Segments[3])
    /\ Segments[1] # Segments[3]
    /\ chunks = Segments[1]
    /\ chunks # <<>>
\* the second pattern alone cut the text into two valid segments
C28_WitnessMost ==
    /\ tpc = "done" /\ line_num = 1
    /\ Len(Segments[2]) = 2 /\ Len(Segments[1]) = 1
    /\ chunks = Segments[2]

\* the buffer with the line read in this step
Buffer == Append(current_chunk, lines[line_num])
\* the totals keyword is on the line read and the buffer is over the minimum
TotalsOnFullBuffer ==
    Contains(lines[line_num], SOMMANO) /\ Len(Buffer) > FallbackMinLines
\* the text of the buffer, blank lines at its ends aside, starts with digits
\* followed by whitespace
BufferNumbered ==
    LET keep == {i \in 1..Len(Buffer) : Strip(Buffer[i]) # <<>>}
        first == Strip(Buffer[MinOf(keep)])
        d == RunEnd(first, 1, Digits)
    IN /\ keep # {}
       /\ d > 1
       /\ (d <= Len(first) /\ IsSpace(first[d])) \/ (d = Len(first) + 1 /\ MaxOf(keep) > MinOf(keep))
\* the fallback runs only after a cascade that kept nothing
FallbackOnlyAfterEmptyCascade ==
    [][(tpc = "cascade" /\ tpc' = "scan") <=>
          (tpc = "cascade" /\ \A k \in 1..NumPatterns : ValidChunks(k, lines) = <<>>)]_vars

\* C29 as claimed: the buffer is sealed and reset exactly when the line read
\* holds SOMMANO, the buffer holds more than 5 lines and it begins with a
\* bare number; in every other case it is neither sealed nor reset.
C29_AsClaimed ==
    [][ReadsLine =>
          IF TotalsOnFullBuffer /\ BufferNumbered
          THEN chunks' = Append(chunks, StripText(Buffer)) /\ current_chunk' = <<>>
          ELSE chunks' = chunks /\ current_chunk' = Buffer]_vars
\* C29: the fallback runs only when the cascade produced no chunk; the
\* buffer is reset exactly when the line read holds SOMMANO and the buffer
\* holds more than 5 lines, and it is sealed as a chunk at that reset
\* exactly when its text, blank lines at its start aside, begins with a bare
\* number; in every other case it is neither sealed nor reset.
C29_DelimiterFallback ==
    /\ FallbackOnlyAfterEmptyCascade
    /\ [][ReadsLine =>
             /\ current_chunk' = IF TotalsOnFullBuffer THEN <<>> ELSE Buffer
             /\ chunks' = IF TotalsOnFullBuffer /\ BufferNumbered
                          THEN Append(chunks, StripText(Buffer)) ELSE chunks]_vars
\* a buffer of six lines that does not begin with a number was dropped at
\* its SOMMANO line, and the next line went to a new buffer
C29_Witness ==
    /\ lines = <<FbPlain, FbPlain, FbPlain, FbPlain, FbPlain, FbTotal, FbNumber>>
    /\ tpc = "done"
    /\ chunks = <<>>
    /\ current_chunk = <<FbNumber>>

(***************************************************************************)
(* Claims on the crop rectangles, on degenerate crops, on pages without    *)
(* the keyword and on the ordinals of the crops                            *)
(***************************************************************************)
\* the occurrences of a page in (y0, x0) order
SortedHits(page) == SortHits(page.hits, Len(page.hits))
\* the cursor at occurrence k: the content top, then just below the bottom
\* edge of occurrence k - 1
CursorAt(page, k) ==
    IF k = 1 THEN PageTop(page) ELSE SortedHits(page)[k - 1].y1 + NextRowGap
\* the rectangle planned for occurrence k, before it is cut to the page
PlannedRect(page, k) ==
    [x0 |-> page.rect.x0 + left_margin,
     y0 |-> CursorAt(page, k),
     x1 |-> page.rect.x1 - right_margin,
     y1 |-> SortedHits(page)[k].y1 + extend_bottom + include_keyword_padding]
\* the planned rectangle cut to the page: empty if they do not meet
ClippedRect(page, k) ==
    LET r == PlannedRect(page, k)
        c == [x0 |-> IF r.x0 > page.rect.x0 THEN r.x0 ELSE page.rect.x0,
              y0 |-> IF r.y0 > page.rect.y0 THEN r.y0 ELSE page.rect.y0,
              x1 |-> IF r.x1 < page.rect.x1 THEN r.x1 ELSE page.rect.x1,
              y1 |-> IF r.y1 < page.rect.y1 THEN r.y1 ELSE page.rect.y1]
    IN IF r.x0 >= r.x1 \/ r.y0 >= r.y1 THEN r ELSE c
\* the occurrence is large enough to give a crop
GivesCrop(page, k) ==
    LET c == ClippedRect(page, k)
    IN c.y1 - c.y0 >= MinCropSize /\ c.x1 - c.x0 >= MinCropSize
\* the occurrences of a page that give a crop, in order
CropGivers(page) ==
    SelectSeq([k \in 1..Len(page.hits) |-> k], LAMBDA k : GivesCrop(page, k))

\* C31 as claimed: the top edge of the crop of an occurrence is the cursor
\* and its bottom edge is the bottom edge of the occurrence plus
\* extend_bottom plus include_keyword_padding.
C31_AsClaimed ==
    \A p \in 1..pno :
        LET cs == CropsOfPage(p)
            ks == CropGivers(doc[p])
        IN \A i \in 1..Len(cs) :
              i <= Len(ks) =>
                 /\ cs[i].rect.y0 = PlannedRect(doc[p], ks[i]).y0
                 /\ cs[i].rect.y1 = PlannedRect(doc[p], ks[i]).y1
\* C31: the crop of an occurrence is the rectangle from the cursor (the
\* content top for the first occurrence, 2 points below the bottom edge of
\* the previous occurrence afterwards) to the bottom edge of the occurrence
\* plus extend_bottom plus include_keyword_padding, cut to the page; the
\* cursor depends on neither extend_bottom nor include_keyword_padding.
C31_CropRectangle ==
    \A p \in 1..pno :
        LET cs == CropsOfPage(p)
            ks == CropGivers(doc[p])
        IN /\ Len(cs) = Len(ks)
           /\ \A i \in 1..Len(cs) : cs[i].rect = ClippedRect(doc[p], ks[i])
\* two occurrences: the second crop starts 2 points below the first
\* occurrence and is cut at the bottom edge of the page
C31_Witness ==
    /\ pno = 1
    /\ doc[1].hits = <<Hit(10, 40, 44), Hit(10, 66, 78)>>
    /\ Len(crops) = 2
    /\ crops[1].rect.y1 = 44 + extend_bottom + include_keyword_padding
    /\ crops[2].rect.y0 = 44 + NextRowGap
    /\ crops[2].rect.y1 = PageHeight

\* the crop lies inside the page and is at least MinCropSize high and wide
WellFormedCrop(page, c) ==
    /\ page.rect.x0 <= c.rect.x0 /\ c.rect.x1 <= page.rect.x1
    /\ page.rect.y0 <= c.rect.y0 /\ c.rect.y1 <= page.rect.y1
    /\ c.rect.y1 - c.rect.y0 >= MinCropSize
    /\ c.rect.x1 - c.rect.x0 >= MinCropSize
\* the occurrences of a page whose crop is dropped
DroppedHits(page) == {k \in 1..Len(page.hits) : ~GivesCrop(page, k)}

\* C32: every crop lies inside its page and is at least 6 high and wide; an
\* occurrence whose clipped rectangle is empty or under the floor gives no
\* crop and no error and takes no row number: the rows of a page are
\* 1..n without gaps, and the cursor still moves below that occurrence, so
\* the crop of the next occurrence starts 2 points below it.
C32_Degeneracy ==
    /\ spc # "failed" \/ damaged # {}
    /\ \A p \in 1..pno :
          LET cs == CropsOfPage(p)
              ks == CropGivers(doc[p])
          IN /\ \A i \in 1..Len(cs) : WellFormedCrop(doc[p], cs[i]) /\ cs[i].row = i
             /\ Len(cs) = Len(doc[p].hits) - Cardinality(DroppedHits(doc[p]))
             /\ \A i \in 1..Len(cs) :
                   (i <= Len(ks) /\ ks[i] > 1 /\ (ks[i] - 1) \in DroppedHits(doc[p])) =>
                      cs[i].rect.y0 = SortedHits(doc[p])[ks[i] - 1].y1 + NextRowGap
\* a tall occurrence, one that ends above it and gives no crop, and a third
\* whose crop is row 2 and starts 2 points below the second
C32_Witness ==
    /\ pno = 1
    /\ doc[1].hits = <<Hit(10, 20, 32), Hit(10, 21, 25), Hit(10, 40, 44)>>
    /\ DroppedHits(doc[1]) = {2}
    /\ Len(crops) = 2
    /\ crops[2].row = 2 /\ crops[2].rect.y0 = 25 + NextRowGap

\* the pages of a document that hold the keyword
RECURSIVE KeywordPages(_, _)
KeywordPages(d, n) ==
    IF n = 0 THEN <<>>
    ELSE IF d[n].hits = <<>> THEN KeywordPages(d, n - 1)
    ELSE Append(KeywordPages(d, n - 1), d[n])
\* rectangle and row of the crops of the first n pages of a document
RECURSIVE RowsOf(_, _)
RowsOf(d, n) ==
    IF n = 0 THEN <<>>
    ELSE LET cs == PageCrops(d[n], n - 1)
         IN RowsOf(d, n - 1) \o [i \in 1..Len(cs) |-> [rect |-> cs[i].rect, row |-> cs[i].row]]
\* the next page can be read and holds no keyword
AtBlankPage ==
    spc = "crop" /\ pno < Len(doc) /\ (pno + 1) \notin damaged /\ doc[pno + 1].hits = <<>>

\* C33: a page without the keyword gives no crop and no error and leaves
\* the crops of the other pages (rectangles, order, row numbers) as they
\* are in the document without that page; a document without any occurrence
\* gives no crop.
C33_BlankPages ==
    /\ [][AtBlankPage =>
             (pno' = pno + 1 /\ crops' = crops /\ saved_files' = saved_files
              /\ spc' = "crop")]_vars
    /\ [](LET kp == KeywordPages(doc, pno)
          IN [i \in 1..Len(crops) |-> [rect |-> crops[i].rect, row |-> crops[i].row]]
                = RowsOf(kp, Len(kp)))
    /\ []((spc = "done" /\ \A p \in 1..Len(doc) : doc[p].hits = <<>>) =>
             (crops = <<>> /\ work_item_files = <<>>))
\* a page without the keyword between two pages with rows
C33_Witness ==
    /\ spc = "done" /\ Len(doc) = 3
    /\ doc[1].hits # <<>> /\ doc[2].hits = <<>> /\ doc[3].hits # <<>>
    /\ Len(crops) >= 2
    /\ crops[1].page = 1 /\ crops[Len(crops)].page = 3 /\ crops[Len(crops)].row = 1

\* C38: ordinal i goes to the i-th crop in scan order (page ascending, then
\* row ascending), also in documents of more than 99 pages.
C38_OrdinalsInScanOrder ==
    spc = "done" =>
        /\ Len(work_item_files) = Len(crops)
        /\ \A i \in 1..Len(crops) : work_item_files[i] = crops[i].fname


(***************************************************************************)
(* Claims on the quality gate, the notifications and the order of the      *)
(* writes of main.  emails lists the calls of send_email.                   *)
(***************************************************************************)
\* the quality check gave a result and its ratio, 0 when an object that is
\* not empty has none, is under the floor
LowQuality ==
    \/ quality_result.kind = "nokey"
    \/ quality_result.kind = "data" /\ quality_result.quality_ratio < QualityFloor
\* the quality check failed or gave the empty object, or the ratio is at
\* least the floor
QualityPassed ==
    \/ quality_result.kind \in {"none", "empty"}
    \/ quality_result.kind = "data" /\ quality_result.quality_ratio >= QualityFloor
\* the quality check has run
QualityChecked == Made("run_primus_quality_check")

\* C34: when the quality check returns a result whose quality_ratio is
\* under 0.95 the job sends one low-quality email and ends with status 0
\* without extraction, database update or split; when the check gives no
\* result, or a ratio of at least 0.95, the job goes on with the extraction
\* and sends no low-quality email.
C34_QualityGate ==
    /\ (QualityChecked /\ LowQuality) =>
          /\ jpc = "exited" /\ exit_code = 0 /\ emails = <<"low_quality">>
          /\ steps[Len(steps)] = "run_primus_quality_check"
          /\ ~Made("process_pdf_with_primus") /\ ~Made("update_document")
          /\ ~Made("split_pdf_by_sommano") /\ ~Made("update_work_items_with_files")
          /\ extraction_result = NoExtraction /\ db_items = <<>> /\ n_files = 0
    /\ (QualityChecked /\ QualityPassed) =>
          /\ jpc = "extract" \/ Made("process_pdf_with_primus")
          /\ \A i \in 1..Len(emails) : emails[i] # "low_quality"
    /\ (QualityChecked /\ ~LowQuality /\ ~QualityPassed) =>
          /\ job_error \in {"AttributeError", "TypeError"}
          /\ ~Made("process_pdf_with_primus")
          /\ \A i \in 1..Len(emails) : emails[i] # "low_quality"
    /\ (~QualityChecked) => quality_result = NoQuality

\* a ratio of 0.94: the job ended with status 0 after the low-quality email,
\* the quality check its last step
C34_Witness ==
    /\ quality_result = [kind |-> "data", quality_ratio |-> QualityFloor - 1]
    /\ jpc = "exited" /\ exit_code = 0 /\ emails = <<"low_quality">>
    /\ Len(steps) = 6 /\ db_items = <<>>
\* no result, the empty object, and a ratio of exactly 0.95: the extraction
\* ran
C34_WitnessNoResult ==
    quality_result.kind = "none" /\ Made("process_pdf_with_primus")
C34_WitnessEmpty ==
    quality_result.kind = "empty" /\ Made("process_pdf_with_primus")
C34_WitnessAtFloor ==
    /\ quality_result = [kind |-> "data", quality_ratio |-> QualityFloor]
    /\ Made("process_pdf_with_primus")

\* the kinds of the emails sent
EmailKinds == {emails[i] : i \in 1..Len(emails)}

\* C35: on every path of main at most one email is sent; a failure path
\* with user email, title and type known sends exactly one error email and
\* exits with status 1; no run sends both a success and an error email.
C35_SingleNotification ==
    /\ Len(emails) <= 1
    /\ EmailKinds \subseteq {"success", "low_quality", "error"}
    /\ ~({"success", "error"} \subseteq EmailKinds)
    /\ (jpc = "exited" /\ FailedRun) =>
          /\ exit_code = 1
          /\ emails = IF ErrorEmailDue(request) THEN <<"error">> ELSE <<>>
    /\ (jpc = "exited" /\ ~FailedRun) =>
          /\ exit_code = 0
          /\ emails = IF QualityChecked /\ LowQuality THEN <<"low_quality">> ELSE <<"success">>
    /\ (jpc # "exited") => emails = <<>>

\* the first database update failed on a complete request: one error email,
\* status 1
C35_Witness ==
    /\ jpc = "exited" /\ exit_code = 1
    /\ job_error = "Failed to update database"
    /\ ErrorEmailDue(request) /\ emails = <<"error">>
\* a run that ended with the success email alone
C35_WitnessSuccess ==
    jpc = "exited" /\ exit_code = 0 /\ emails = <<"success">> /\ Made("update_document")

\* the items with no file attached
NoFiles(items) == [i \in 1..Len(items) |-> [items[i] EXCEPT !.file = 0]]
\* the items as update_document wrote them the first time: no file attached
FirstWrite == NoFiles(job_items.items)
\* the split gave no file, or the write of the linked items failed
SplitOrLinkFailed ==
    /\ Made("split_pdf_by_sommano")
    /\ \/ n_files = 0 /\ jpc \in {"success", "exited"}
       \/ Made("update_work_items_with_files") /\ db_items # job_items.items

\* C36: the document is written only after validate_and_normalize_workitems
\* succeeded on the extracted items; the split runs only after the first
\* update succeeded; a failed split or a failed second update leaves the
\* job a success with the first update in place; a failed first update ends
\* the job with status 1 and no split.
C36_PersistenceOrder ==
    /\ Made("update_document") =>
          /\ Made("validate_and_normalize_workitems")
          /\ validate_and_normalize_workitems(extraction_result.workItems).error = ""
          /\ job_error \in {"", "Failed to update database"}
    /\ (db_items # <<>>) =>
          /\ Made("update_document") /\ job_error = ""
          /\ NoFiles(db_items)
                = validate_and_normalize_workitems(extraction_result.workItems).items
    /\ Made("split_pdf_by_sommano") =>
          /\ Made("update_document") /\ job_error = ""
          /\ db_items # <<>>
          /\ db_items \in {job_items.items, FirstWrite}
    /\ SplitOrLinkFailed =>
          /\ db_items = FirstWrite
          /\ jpc = "exited" => (exit_code = 0 /\ emails = <<"success">>)
    /\ (job_error = "Failed to update database") =>
          /\ ~Made("split_pdf_by_sommano") /\ ~Made("update_work_items_with_files")
          /\ db_items = <<>> /\ n_files = 0
          /\ jpc = "exited" => exit_code = 1

\* the split gave files, the second update failed: the job ended a success
\* with the items of the first update in the database, without the files
\* the items in memory carry
C36_Witness ==
    /\ jpc = "exited" /\ exit_code = 0 /\ emails = <<"success">>
    /\ Made("update_work_items_with_files") /\ n_files > 0
    /\ db_items = FirstWrite /\ db_items # job_items.items
\* the split gave nothing and the job ended a success
C36_WitnessNoSplit ==
    /\ jpc = "exited" /\ exit_code = 0 /\ emails = <<"success">>
    /\ Made("split_pdf_by_sommano") /\ n_files = 0 /\ db_items = FirstWrite
\* the first update failed: status 1, no split
C36_WitnessFirstUpdate ==
    /\ jpc = "exited" /\ exit_code = 1 /\ job_error = "Failed to update database"
    /\ steps[Len(steps)] = "update_document" /\ db_items = <<>>

(***************************************************************************)
(* The reader threads and the polling loop of process_pdf_with_primus.     *)
(* In SpecStream the clock stands still and the child only closes its      *)
(* pipes; SpecProc adds the clock, the exit of the child and the rest of   *)
(* the function.                                                           *)
(***************************************************************************)
StreamInit ==
    /\ pdf_file = "pdf" /\ child = NoChild /\ child_state = "running"
    /\ readers = [p \in Pipes |-> "reading"]
    /\ output_queue = <<>>
    /\ streams_ended = [p \in Pipes |-> FALSE]
    /\ over_time = FALSE /\ overran = FALSE /\ killed = FALSE
    /\ proc_result = "pending" /\ ppc = "check"
    /\ stream \in [Pipes -> {[lines |-> n, read |-> 0, eof |-> FALSE] : n \in 0..MaxStreamLines}]
    /\ all_stdout = <<>> /\ all_stderr = <<>>
    /\ TabIdle /\ NormIdle /\ EngIdle /\ CropIdle /\ AssocIdle /\ ItemIdle /\ JobIdle
    /\ ParIdle /\ UpdIdle

\* the running child closes a pipe; what it wrote before stays readable
ChildCloses(p) ==
    /\ child_state = "running" /\ ~stream[p].eof
    /\ stream' = [stream EXCEPT ![p].eof = TRUE]
    /\ UNCHANGED <<all_stdout, all_stderr>>
    /\ UNCHANGED procVars
    /\ UNCHANGED <<tabVars, normVars, engVars, cropVars, assocVars, itemVars, jobVars,
                   parVars, updVars>>

\* lines 326-328: pipe.readline() gives the next line and the reader puts
\* (pipe_name, line.rstrip())
ReadLine(p) ==
    /\ readers[p] = "reading"
    /\ stream[p].read < stream[p].lines
    /\ stream' = [stream EXCEPT ![p].read = @ + 1]
    /\ output_queue' = Append(output_queue, [pipe |-> p, line |-> stream[p].read + 1])
    /\ UNCHANGED <<all_stdout, all_stderr>>
    /\ UNCHANGED <<pdf_file, child, child_state, readers, streams_ended, over_time,
                   overran, killed, proc_result, ppc>>
    /\ UNCHANGED <<tabVars, normVars, engVars, cropVars, assocVars, itemVars, jobVars,
                   parVars, updVars>>

\* lines 326 and 329: readline gives '' at the end of a closed pipe, the
\* loop ends and pipe.close() returns
ReadEof(p) ==
    /\ readers[p] = "reading"
    /\ stream[p].read = stream[p].lines /\ stream[p].eof
    /\ readers' = [readers EXCEPT ![p] = "finally"]
    /\ UNCHANGED strVars
    /\ UNCHANGED <<pdf_file, child, child_state, output_queue, streams_ended, over_time,
                   overran, killed, proc_result, ppc>>
    /\ UNCHANGED <<tabVars, normVars, engVars, cropVars, assocVars, itemVars, jobVars,
                   parVars, updVars>>

\* lines 330-331: readline or close raises and the handler puts
\* ('error', message)
ReadRaises(p) ==
    /\ readers[p] = "reading"
    /\ output_queue' = Append(output_queue, [pipe |-> "error", line |-> 1])
    /\ readers' = [readers EXCEPT ![p] = "finally"]
    /\ UNCHANGED strVars
    /\ UNCHANGED <<pdf_file, child, child_state, streams_ended, over_time, overran,
                   killed, proc_result, ppc>>
    /\ UNCHANGED <<tabVars, normVars, engVars, cropVars, assocVars, itemVars, jobVars,
                   parVars, updVars>>

\* lines 332-333: the finally clause puts the end mark and the thread ends
PutEndMark(p) ==
    /\ readers[p] = "finally"
    /\ output_queue' = Append(output_queue, EndMark(p))
    /\ readers' = [readers EXCEPT ![p] = "ended"]
    /\ UNCHANGED strVars
    /\ UNCHANGED <<pdf_file, child, child_state, streams_ended, over_time, overran,
                   killed, proc_result, ppc>>
    /\ UNCHANGED <<tabVars, normVars, engVars, cropVars, assocVars, itemVars, jobVars,
                   parVars, updVars>>

\* a thread running read_output
Reader(p) == ReadLine(p) \/ ReadEof(p) \/ ReadRaises(p) \/ PutEndMark(p)

\* the loop that takes the first end mark for the end of both streams
StoreOutputEndsAll ==
    /\ ppc = "get"
    /\ IF output_queue = <<>>
       THEN UNCHANGED <<output_queue, streams_ended, all_stdout, all_stderr>>
       ELSE LET head == output_queue[1]
            IN /\ output_queue' = Tail(output_queue)
               /\ IF head.line = 0
                  THEN /\ streams_ended' = [p \in Pipes |-> TRUE]
                       /\ UNCHANGED <<all_stdout, all_stderr>>
                  ELSE /\ all_stdout' = IF head.pipe = "stdout"
                                        THEN Append(all_stdout, head.line) ELSE all_stdout
                       /\ all_stderr' = IF head.pipe = "stderr"
                                        THEN Append(all_stderr, head.line) ELSE all_stderr
                       /\ UNCHANGED streams_ended
    /\ ppc' = "check"
    /\ UNCHANGED <<pdf_file, child, child_state, readers, over_time, overran, killed,
                   proc_result, stream>>
    /\ UNCHANGED <<tabVars, normVars, engVars, cropVars, assocVars, itemVars, jobVars,
                   parVars, updVars>>

\* lines 379-406: output_queue.get(timeout=1.0); None marks the end of the
\* stream of the item's pipe, any other line of stdout or stderr is stored,
\* queue.Empty goes back to the test
StoreOutput ==
    /\ ppc = "get"
    /\ IF output_queue = <<>>
       THEN UNCHANGED <<output_queue, streams_ended, all_stdout, all_stderr>>
       ELSE LET head == output_queue[1]
            IN /\ output_queue' = Tail(output_queue)
               /\ IF head.line = 0
                  THEN /\ streams_ended' = [streams_ended EXCEPT ![head.pipe] = TRUE]
                       /\ UNCHANGED <<all_stdout, all_stderr>>
                  ELSE /\ all_stdout' = IF head.pipe = "stdout"
                                        THEN Append(all_stdout, head.line) ELSE all_stdout
                       /\ all_stderr' = IF head.pipe = "stderr"
                                        THEN Append(all_stderr, head.line) ELSE all_stderr
                       /\ UNCHANGED streams_ended
    /\ ppc' = "check"
    /\ UNCHANGED <<pdf_file, child, child_state, readers, over_time, overran, killed,
                   proc_result, stream>>
    /\ UNCHANGED <<tabVars, normVars, engVars, cropVars, assocVars, itemVars, jobVars,
                   parVars, updVars>>

StreamNext ==
    \/ LoopTest \/ StoreOutput
    \/ \E p \in Pipes : ChildCloses(p) \/ Reader(p)
SpecStream == StreamInit /\ [][StreamNext]_vars
\* the threads and the loop keep running: each reader thread takes its next
\* step when it can, and so does the loop
SpecStreamFair ==
    /\ SpecStream
    /\ WF_vars(LoopTest) /\ WF_vars(StoreOutput)
    /\ \A p \in Pipes : WF_vars(Reader(p))

ProcNext ==
    \/ StartProcess \/ StartStdoutThread \/ StartStderrThread
    \/ LoopTest \/ StoreOutput \/ ProcessWait \/ Join \/ ReadOutput
    \/ \E p \in Pipes : ChildCloses(p) \/ Reader(p)
    \/ ChildExits \/ Deadline
SpecProc == ProcInit /\ [][ProcNext]_vars

\* C23: process_pdf_with_primus returns None, and never extraction data,
\* whenever the extraction subprocess exits with a non-zero return code or
\* runs past the timeout; on timeout the subprocess is killed before the
\* function returns.
C23_SubprocessFailure ==
    (ppc = "returned" /\ child_state # "none") =>
        /\ (child_state = "exit1" \/ overran) => proc_result = "None"
        /\ overran => killed

(***************************************************************************)
(* Claims on the streaming of the subprocess output                         *)
(***************************************************************************)
\* the lines the loop stored for a pipe
Stored(p) == IF p = "stdout" THEN all_stdout ELSE all_stderr
\* the items of a pipe waiting in the queue, and the lines among them
QueuedOf(p) == SelectSeq(output_queue, LAMBDA m : m.pipe = p)
QueuedLines(p) ==
    LET q == SelectSeq(QueuedOf(p), LAMBDA m : m.line # 0)
    IN [i \in 1..Len(q) |-> q[i].line]
\* the end marks of a pipe put so far: those waiting and the one consumed
MarksPut(p) ==
    Len(SelectSeq(QueuedOf(p), LAMBDA m : m.line = 0))
    + (IF streams_ended[p] THEN 1 ELSE 0)
\* the lines 1..n in their order
FirstLines(n) == [i \in 1..n |-> i]
\* the loop was left by its test, not by the timeout
LeftNormally == ppc = "wait"

\* the readers: what a reader has put is, in order, the lines it has read
\* and then, once it has ended, one end mark that nothing of its pipe
\* follows
ReadersInOrder ==
    \A p \in Pipes :
        /\ Stored(p) \o QueuedLines(p) = FirstLines(stream[p].read)
        /\ MarksPut(p) = IF readers[p] = "ended" THEN 1 ELSE 0
        /\ (QueuedOf(p) # <<>> /\ readers[p] = "ended" /\ ~streams_ended[p]) =>
              QueuedOf(p)[Len(QueuedOf(p))] = EndMark(p)
        /\ streams_ended[p] => QueuedOf(p) = <<>>
\* the loop: it is left normally only with both end marks consumed and the
\* queue empty, every line a reader has put being stored by then
NothingLost ==
    LeftNormally =>
        /\ \A p \in Pipes : streams_ended[p] /\ readers[p] = "ended"
        /\ output_queue = <<>>
        /\ \A p \in Pipes : Stored(p) = FirstLines(stream[p].read)

\* C37: each reader thread puts the lines of its stream in order and then
\* exactly one end mark as its last item, also when reading fails; the loop
\* is left normally only after both end marks were consumed and the queue
\* is empty, every line put by a reader being stored before the return
\* code is looked at, whatever the interleaving of the readers and the
\* loop; and once both streams have ended, the loop terminates, by its
\* own test.
C37_LogStreaming ==
    /\ [](ReadersInOrder /\ NothingLost)
    /\ ((\A p \in Pipes : stream[p].eof) ~> LeftNormally)

\* the loop was left normally with two lines of each pipe stored, the
\* readers having ended in turn
C37_Witness ==
    /\ LeftNormally
    /\ all_stdout = FirstLines(MaxStreamLines) /\ all_stderr = FirstLines(MaxStreamLines)
\* the reader of stdout failed before its second line: its end mark was
\* consumed all the same and the loop was left normally
C37_WitnessReadFails ==
    /\ LeftNormally
    /\ stream["stdout"].lines = 2 /\ stream["stdout"].read = 1 /\ all_stdout = <<1>>
    /\ ~stream["stdout"].eof
\* an end mark waits in the queue behind a line of the other pipe while
\* the other reader still reads
C37_WitnessInterleaved ==
    /\ ppc = "get" /\ Len(output_queue) = 3
    /\ output_queue[1] = [pipe |-> "stdout", line |-> 1]
    /\ output_queue[2] = [pipe |-> "stderr", line |-> 1]
    /\ output_queue[3] = EndMark("stdout")
    /\ readers["stderr"] = "reading"
====
